---- MODULE Spec2Model ----
(***************************************************************************)
(* Model of the auto-slice analysis pipeline: the grid detector, the       *)
(* background remover and the shape decomposer.  Pixel buffers are         *)
(* functions from the pixel index y*width+x (0-based, as in the code) to a *)
(* record [r, g, b, a]; data[(y*width+x)*4 + k] of the code is channel k   *)
(* of data[y*width+x] here.                                                *)
(***************************************************************************)
EXTENDS Integers, Sequences, FiniteSets, TLC

VARIABLES
    pc,             \* position of the caller: "ready" before the call, "done" after
    imageData,      \* the ImageData handed to the operation under analysis
    gridSettings,   \* window.gridSettings
    gridConfig,     \* result of detectGrid
    cleanedData,    \* result of removeBackground
    shapeAnalysis,  \* result of decomposeIntoShapes
    lineGroups,     \* argument of enforceMinimumGap
    gapCalls,       \* the calls of enforceMinimumGap made so far: [minGap, filtered]
    sliceCall,      \* arguments of removeShadowsAlongSlices: [sliceLines, shadowWidth]
    returnedBuffer, \* the buffer the last call returned: "argument" or "fresh"
    samples,        \* result of sampleBackgroundPoints: [cornerPoints, colors]
    dividerIndices, \* argument of consolidateDividersToGroups
    initialMask,    \* arguments of floodFillFromEdges: [mask, width, height]
    floodFill,      \* floodFillFromEdges when its loop has run: [queue, visited, result]
    passCalls,      \* the calls of a shadow pass made so far: [aggressiveness, result]
    nineSlice,      \* result of calculateNineSliceBorders
    components,     \* ImageGridAnalyzer.components
    gridLineComponents  \* ImageGridAnalyzer.gridLineComponents

vars == <<pc, imageData, gridSettings, gridConfig, cleanedData, shapeAnalysis,
          lineGroups, gapCalls, sliceCall, returnedBuffer, samples, dividerIndices,
          initialMask, floodFill, passCalls, nineSlice, components,
          gridLineComponents>>

\* JavaScript's undefined / null is the empty tuple; a value v that may be
\* undefined is kept as <<v>>
undefined == <<>>
Some(v) == <<v>>

(***************************************************************************)
(* Bounds of the model                                                     *)
(***************************************************************************)
MaxCenter == 5      \* divider centers of the enforceMinimumGap inputs: 0..MaxCenter
MaxGroupWidth == 2  \* widths of those groups: 1..MaxGroupWidth
MaxGroups == 3      \* longest list of groups handed to enforceMinimumGap
MaxGap == 3         \* minGap values: 0..MaxGap
MaxWidth == 4       \* widest image handed to detectGrid
MaxHeight == 5      \* tallest image handed to detectGrid
MaxIndex == 7        \* uniform row / column indices handed to the consolidation: 0..MaxIndex
MaxFloodPixels == 12 \* pixels of the largest mask handed to floodFillFromEdges
MaxGradientSide == 9 \* side of the largest image handed to removeGradientShadows
MaxRun == 5          \* longest side of the two-line images handed to the line detectors
MaxSampleSide == 13 \* side of the largest image handed to sampleBackgroundPoints
MaxSmallSide == 2   \* side of the largest image enumerated pixel by pixel
MaxBox == 9         \* side of the largest box with cut corners
MaxCut == 3         \* largest corner cut of a box
MaxSide == 11       \* side of the largest framed image handed to removeBackground
MaxRing == 3        \* largest distance of the frame from the image edge
MaxShadowHeight == 3 \* tallest image handed to removeShadowsAlongSlices
MaxShadowWidth == 2  \* largest shadowWidth handed to removeShadowsAlongSlices
MaxSemiHeight == 2   \* tallest image handed to removeSemiTransparentPixels
MaxAnalyzerSide == 5 \* side of the largest image loaded into the analyzer

(***************************************************************************)
(* Arithmetic helpers                                                      *)
(***************************************************************************)
Abs(n) == IF n < 0 THEN -n ELSE n
Min2(a, b) == IF a < b THEN a ELSE b
Max2(a, b) == IF a > b THEN a ELSE b

\* Math.round(num / den) for num >= 0, den > 0 (halves round up)
RoundDiv(num, den) == (2 * num + den) \div (2 * den)

(***************************************************************************)
(* Grid detector                                                           *)
(***************************************************************************)
DEFAULT_COLOR_TOLERANCE == 5
DEFAULT_MIN_GAP == 50

getTolerance(settings) ==
    IF settings.tolerance # undefined THEN settings.tolerance[1]
    ELSE DEFAULT_COLOR_TOLERANCE

getMinGaps(settings) ==
    [minXGap |-> IF settings.minXGap # undefined THEN settings.minXGap[1] ELSE DEFAULT_MIN_GAP,
     minYGap |-> IF settings.minYGap # undefined THEN settings.minYGap[1] ELSE DEFAULT_MIN_GAP]

colorsMatch(p1, p2, tolerance) ==
    /\ Abs(p1.r - p2.r) <= tolerance
    /\ Abs(p1.g - p2.g) <= tolerance
    /\ Abs(p1.b - p2.b) <= tolerance
    /\ Abs(p1.a - p2.a) <= tolerance

isUniformRow(data, width, height, y, tolerance) ==
    \A x \in 1..(width - 1) : colorsMatch(data[y * width], data[y * width + x], tolerance)

isUniformColumn(data, width, height, x, tolerance) ==
    \A y \in 1..(height - 1) : colorsMatch(data[x], data[y * width + x], tolerance)

\* the loop "for i from 0: if uniform(i) then border = i + 1 else break"
RECURSIVE BorderScan(_, _, _)
BorderScan(uniform, i, n) ==
    IF i < n /\ uniform[i] THEN BorderScan(uniform, i + 1, n) ELSE i

\* the loop "for i from n-1 down: if uniform(i) then border = n - i else break"
RECURSIVE BorderScanBack(_, _, _)
BorderScanBack(uniform, i, n) ==
    IF i >= 0 /\ uniform[i] THEN BorderScanBack(uniform, i - 1, n) ELSE n - 1 - i

\* a buggy variant: the loops do not break at the first line that is not
\* uniform, so that the last uniform line met sets the border
detectOuterBordersNoBreak(data, width, height, tolerance) ==
    LET rowU == { y \in 0..(height - 1) : isUniformRow(data, width, height, y, tolerance) }
        colU == { x \in 0..(width - 1) : isUniformColumn(data, width, height, x, tolerance) }
        Last(S) == CHOOSE v \in S : \A u \in S : v >= u
        First(S) == CHOOSE v \in S : \A u \in S : v <= u
    IN  [top    |-> IF rowU = {} THEN 0 ELSE Last(rowU) + 1,
         right  |-> IF colU = {} THEN 0 ELSE width - First(colU),
         bottom |-> IF rowU = {} THEN 0 ELSE height - First(rowU),
         left   |-> IF colU = {} THEN 0 ELSE Last(colU) + 1]

detectOuterBorders(data, width, height, tolerance) ==
    LET rowU == [y \in 0..(height - 1) |-> isUniformRow(data, width, height, y, tolerance)]
        colU == [x \in 0..(width - 1) |-> isUniformColumn(data, width, height, x, tolerance)]
    IN  [top    |-> BorderScan(rowU, 0, height),
         right  |-> BorderScanBack(colU, width - 1, width),
         bottom |-> BorderScanBack(rowU, height - 1, height),
         left   |-> BorderScan(colU, 0, width)]

\* the group pushed by consolidateDividersToGroups for the run groupStart..groupEnd
MakeGroup(groupStart, groupEnd) ==
    [start  |-> groupStart,
     end    |-> groupEnd,
     center |-> RoundDiv(groupStart + groupEnd, 2),
     width  |-> groupEnd - groupStart + 1]

\* a buggy variant of the loop: an index two past the end of the run still
\* extends the run
RECURSIVE ConsolidateLoopBridging(_, _, _, _, _)
ConsolidateLoopBridging(dividers, i, groupStart, groupEnd, groups) ==
    IF i > Len(dividers)
    THEN Append(groups, MakeGroup(groupStart, groupEnd))
    ELSE IF dividers[i] <= groupEnd + 2
         THEN ConsolidateLoopBridging(dividers, i + 1, groupStart, dividers[i], groups)
         ELSE ConsolidateLoopBridging(dividers, i + 1, dividers[i], dividers[i],
                                      Append(groups, MakeGroup(groupStart, groupEnd)))

RECURSIVE ConsolidateLoop(_, _, _, _, _)
ConsolidateLoop(dividers, i, groupStart, groupEnd, groups) ==
    IF i > Len(dividers)
    THEN Append(groups, MakeGroup(groupStart, groupEnd))
    ELSE IF dividers[i] = groupEnd + 1
         THEN ConsolidateLoop(dividers, i + 1, groupStart, dividers[i], groups)
         ELSE ConsolidateLoop(dividers, i + 1, dividers[i], dividers[i],
                              Append(groups, MakeGroup(groupStart, groupEnd)))

\* a buggy variant: runs separated by a single index are merged
consolidateDividersToGroupsBridging(dividers) ==
    IF Len(dividers) = 0 THEN <<>>
    ELSE ConsolidateLoopBridging(dividers, 2, dividers[1], dividers[1], <<>>)

consolidateDividersToGroups(dividers) ==
    IF Len(dividers) = 0 THEN <<>>
    ELSE ConsolidateLoop(dividers, 2, dividers[1], dividers[1], <<>>)

findHorizontalDividers(data, width, height, tolerance) ==
    consolidateDividersToGroups(
        SelectSeq([i \in 1..height |-> i - 1],
                  LAMBDA y : isUniformRow(data, width, height, y, tolerance)))

findVerticalDividers(data, width, height, tolerance) ==
    consolidateDividersToGroups(
        SelectSeq([i \in 1..width |-> i - 1],
                  LAMBDA x : isUniformColumn(data, width, height, x, tolerance)))

\* exactCenter of the code is (start + end) / 2; the model keeps twice that value
refineDividerCenters(groups) ==
    [i \in 1..Len(groups) |->
        [start        |-> groups[i].start,
         end          |-> groups[i].end,
         center       |-> RoundDiv(groups[i].start + groups[i].end, 2),
         width        |-> groups[i].width,
         exactCenter2 |-> groups[i].start + groups[i].end]]

\* a buggy variant of the loop body: the distance test is inverted, so that a
\* line closer than minGap is kept and a far one competes on width
EnforceStepInverted(filtered, current, minGap) ==
    IF filtered = <<>> THEN <<current>>
    ELSE LET lastKept == filtered[Len(filtered)]
             distance == current.center - lastKept.center
         IN  IF distance < minGap THEN Append(filtered, current)
             ELSE IF current.width > lastKept.width
                  THEN [filtered EXCEPT ![Len(filtered)] = current]
                  ELSE filtered

\* a buggy variant of the loop body: a line exactly minGap away from the last
\* kept one is treated as too close
EnforceStepStrict(filtered, current, minGap) ==
    IF filtered = <<>> THEN <<current>>
    ELSE LET lastKept == filtered[Len(filtered)]
             distance == current.center - lastKept.center
         IN  IF distance > minGap THEN Append(filtered, current)
             ELSE IF current.width > lastKept.width
                  THEN [filtered EXCEPT ![Len(filtered)] = current]
                  ELSE filtered

\* one iteration of the loop of enforceMinimumGap; lastKept is null exactly
\* while filtered is empty, and is the last element of filtered afterwards
EnforceStep(filtered, current, minGap) ==
    IF filtered = <<>> THEN <<current>>
    ELSE LET lastKept == filtered[Len(filtered)]
             distance == current.center - lastKept.center
         IN  IF distance >= minGap THEN Append(filtered, current)
             ELSE IF current.width > lastKept.width
                  THEN [filtered EXCEPT ![Len(filtered)] = current]
                  ELSE filtered

RECURSIVE EnforceLoop(_, _, _, _)
EnforceLoop(groups, minGap, i, filtered) ==
    IF i > Len(groups) THEN filtered
    ELSE EnforceLoop(groups, minGap, i + 1, EnforceStep(filtered, groups[i], minGap))

\* a buggy variant: a thicker line that is too close is pushed after the last
\* kept one instead of overwriting it
enforceMinimumGapPushesThicker(groups, minGap) ==
    LET step(filtered, current) ==
            IF filtered = <<>> THEN <<current>>
            ELSE LET lastKept == filtered[Len(filtered)]
                     distance == current.center - lastKept.center
                 IN  IF distance >= minGap THEN Append(filtered, current)
                     ELSE IF current.width > lastKept.width
                          THEN Append(filtered, current)
                          ELSE filtered
        walk[i \in 0..Len(groups)] ==
            IF i = 0 THEN <<>> ELSE step(walk[i - 1], groups[i])
    IN  walk[Len(groups)]

\* a buggy variant: of two lines of equal width that are too close, the later
\* one replaces the earlier one
enforceMinimumGapTieReplaces(groups, minGap) ==
    LET step(filtered, current) ==
            IF filtered = <<>> THEN <<current>>
            ELSE LET lastKept == filtered[Len(filtered)]
                     distance == current.center - lastKept.center
                 IN  IF distance >= minGap THEN Append(filtered, current)
                     ELSE IF current.width >= lastKept.width
                          THEN [filtered EXCEPT ![Len(filtered)] = current]
                          ELSE filtered
        walk[i \in 0..Len(groups)] ==
            IF i = 0 THEN <<>> ELSE step(walk[i - 1], groups[i])
    IN  walk[Len(groups)]

enforceMinimumGap(groups, minGap) ==
    IF Len(groups) = 0 THEN <<>> ELSE EnforceLoop(groups, minGap, 1, <<>>)

\* the cell pushed for (row, col), both 0-based
MakeCell(yBoundaries, xBoundaries, row, col) ==
    [type   |-> "cell",
     row    |-> row,
     col    |-> col,
     x      |-> xBoundaries[col + 1],
     y      |-> yBoundaries[row + 1],
     width  |-> xBoundaries[col + 2] - xBoundaries[col + 1],
     height |-> yBoundaries[row + 2] - yBoundaries[row + 1]]

\* a buggy variant: the cells also cover the margin before the first slice
ComputeCellsFromEdge(horizontalLines, verticalLines, width, height, outerBorders) ==
    IF Len(horizontalLines) = 0 /\ Len(verticalLines) = 0
    THEN << [type |-> "cell", row |-> 0, col |-> 0, x |-> 0, y |-> 0,
             width |-> width, height |-> height] >>
    ELSE LET nRows == Max2(Len(horizontalLines) - 1, 0)
             nCols == Max2(Len(verticalLines) - 1, 0)
             yB == [i \in 1..Len(horizontalLines) |-> IF i = 1 THEN 0 ELSE horizontalLines[i]]
             xB == [i \in 1..Len(verticalLines) |-> IF i = 1 THEN 0 ELSE verticalLines[i]]
         IN  [k \in 1..(nRows * nCols) |->
                 MakeCell(yB, xB, (k - 1) \div nCols, (k - 1) % nCols)]

\* a buggy variant: an image without dividers yields no cell at all
ComputeCellsNoWhole(horizontalLines, verticalLines, width, height, outerBorders) ==
    LET nRows == Max2(Len(horizontalLines) - 1, 0)
        nCols == Max2(Len(verticalLines) - 1, 0)
    IN  [k \in 1..(nRows * nCols) |->
            MakeCell(horizontalLines, verticalLines, (k - 1) \div nCols, (k - 1) % nCols)]

\* the nested loops push the cells row by row: the k-th cell (1-based) is
\* (row, col) = ((k-1) div nCols, (k-1) mod nCols)
computeCells(horizontalLines, verticalLines, width, height, outerBorders) ==
    IF Len(horizontalLines) = 0 /\ Len(verticalLines) = 0
    THEN << [type |-> "cell", row |-> 0, col |-> 0, x |-> 0, y |-> 0,
             width |-> width, height |-> height] >>
    ELSE LET nRows == Max2(Len(horizontalLines) - 1, 0)
             nCols == Max2(Len(verticalLines) - 1, 0)
         IN  [k \in 1..(nRows * nCols) |->
                 MakeCell(horizontalLines, verticalLines, (k - 1) \div nCols, (k - 1) % nCols)]

\* a buggy variant: the intersection of a pair is sized width x height of the
\* horizontal group
computeGridLineSegmentsSquare(horizontalLineGroups, verticalLineGroups, width, height) ==
    LET H == Len(horizontalLineGroups)
        V == Len(verticalLineGroups)
        hSegs == [i \in 1..H |->
                    [id |-> <<"h-line", i - 1>>, type |-> "horizontal-line",
                     x |-> 0, y |-> horizontalLineGroups[i].start,
                     width |-> width, height |-> horizontalLineGroups[i].width]]
        vSegs == [j \in 1..V |->
                    [id |-> <<"v-line", H + j - 1>>, type |-> "vertical-line",
                     x |-> verticalLineGroups[j].start, y |-> 0,
                     width |-> verticalLineGroups[j].width, height |-> height]]
        xSegs == [k \in 1..(H * V) |->
                    LET hGroup == horizontalLineGroups[((k - 1) \div V) + 1]
                        vGroup == verticalLineGroups[((k - 1) % V) + 1]
                    IN  [id |-> <<"intersection", H + V + k - 1>>, type |-> "intersection",
                         x |-> vGroup.start, y |-> hGroup.start,
                         width |-> hGroup.width, height |-> hGroup.width]]
    IN  hSegs \o vSegs \o xSegs

\* segment ids are `${prefix}-${segmentId}`; the model keeps the pair
computeGridLineSegments(horizontalLineGroups, verticalLineGroups, width, height) ==
    LET H == Len(horizontalLineGroups)
        V == Len(verticalLineGroups)
        hSegs == [i \in 1..H |->
                    [id |-> <<"h-line", i - 1>>, type |-> "horizontal-line",
                     x |-> 0, y |-> horizontalLineGroups[i].start,
                     width |-> width, height |-> horizontalLineGroups[i].width]]
        vSegs == [j \in 1..V |->
                    [id |-> <<"v-line", H + j - 1>>, type |-> "vertical-line",
                     x |-> verticalLineGroups[j].start, y |-> 0,
                     width |-> verticalLineGroups[j].width, height |-> height]]
        xSegs == [k \in 1..(H * V) |->
                    LET hGroup == horizontalLineGroups[((k - 1) \div V) + 1]
                        vGroup == verticalLineGroups[((k - 1) % V) + 1]
                    IN  [id |-> <<"intersection", H + V + k - 1>>, type |-> "intersection",
                         x |-> vGroup.start, y |-> hGroup.start,
                         width |-> vGroup.width, height |-> hGroup.width]]
    IN  hSegs \o vSegs \o xSegs

\* a buggy variant: the earlier formula, slices + 1, for rows and columns
GridSizePlusOne(sliceCount) == sliceCount + 1

\* the columns / rows field of the GridConfig
GridSize(sliceCount) == IF sliceCount > 0 THEN sliceCount - 1 ELSE 1

detectGrid(image, settings) ==
    LET width == image.width
        height == image.height
        data == image.data
        tolerance == getTolerance(settings)
        gaps == getMinGaps(settings)
        outerBorders == detectOuterBorders(data, width, height, tolerance)
        horizontalLineGroups == findHorizontalDividers(data, width, height, tolerance)
        verticalLineGroups == findVerticalDividers(data, width, height, tolerance)
        refinedHorizontalGroups == refineDividerCenters(horizontalLineGroups)
        refinedVerticalGroups == refineDividerCenters(verticalLineGroups)
        filteredHorizontalGroups == enforceMinimumGap(refinedHorizontalGroups, gaps.minYGap)
        filteredVerticalGroups == enforceMinimumGap(refinedVerticalGroups, gaps.minXGap)
        horizontalSlices == [i \in 1..Len(filteredHorizontalGroups) |->
                                filteredHorizontalGroups[i].center]
        verticalSlices == [i \in 1..Len(filteredVerticalGroups) |->
                              filteredVerticalGroups[i].center]
    IN  [columns              |-> GridSize(Len(verticalSlices)),
         rows                 |-> GridSize(Len(horizontalSlices)),
         horizontalSlices     |-> horizontalSlices,
         verticalSlices       |-> verticalSlices,
         horizontalLineGroups |-> filteredHorizontalGroups,
         verticalLineGroups   |-> filteredVerticalGroups,
         cells                |-> computeCells(horizontalSlices, verticalSlices,
                                               width, height, outerBorders),
         gridLineSegments     |-> computeGridLineSegments(filteredHorizontalGroups,
                                               filteredVerticalGroups, width, height),
         outerBorders         |-> outerBorders]

(***************************************************************************)
(* Shape decomposer                                                        *)
(***************************************************************************)

\* data[(y * width + x) * 4 + 3]; a read outside the array yields undefined in
\* the code, which fails every comparison made on it (> 0, === 0, > 128, > 200):
\* the model yields -1, which fails them as well
AlphaAt(image, x, y) ==
    LET index == y * image.width + x
    IN  IF index \in DOMAIN image.data THEN image.data[index].a ELSE -1

\* {r, g, b, a} read at (x, y)
ColorAt(image, x, y) ==
    LET index == y * image.width + x
    IN  IF index \in DOMAIN image.data THEN Some(image.data[index]) ELSE undefined

SetMin(S) == CHOOSE v \in S : \A u \in S : v <= u
SetMax(S) == CHOOSE v \in S : \A u \in S : v >= u

\* null is undefined; bounds are returned as Some([x, y, width, height])
findContentBounds(image) ==
    LET width == image.width
        height == image.height
        content == { i \in 0..(width * height - 1) : image.data[i].a > 0 }
        xs == { i % width : i \in content }
        ys == { i \div width : i \in content }
        minX == SetMin(xs \cup {width})
        minY == SetMin(ys \cup {height})
        maxX == SetMax(xs \cup {0})
        maxY == SetMax(ys \cup {0})
    IN  IF maxX < minX THEN undefined
        ELSE Some([x |-> minX, y |-> minY,
                   width |-> maxX - minX + 1, height |-> maxY - minY + 1])

\* a buggy variant: a run of exactly 80% counts as well
AtLeast80Percent(lineLength, extent) == 10 * lineLength >= 8 * extent

\* lineLength > bounds.width * 0.8
LongerThan80Percent(lineLength, extent) == 10 * lineLength > 8 * extent

\* the inner loop of detectHorizontalLines over x, for the row y; lineStart is
\* undefined (null) or Some(x); lineColor is set together with lineStart
RECURSIVE HorizontalRowScan(_, _, _, _, _, _)
HorizontalRowScan(image, bounds, y, x, lineStart, lines) ==
    IF x > bounds.x + bounds.width THEN lines
    ELSE LET alpha == IF x < bounds.x + bounds.width THEN AlphaAt(image, x, y) ELSE 0
         IN  IF alpha > 0 /\ lineStart = undefined
             THEN HorizontalRowScan(image, bounds, y, x + 1, Some(x), lines)
             ELSE IF (alpha = 0 \/ x = bounds.x + bounds.width) /\ lineStart # undefined
                  THEN LET lineLength == x - lineStart[1]
                       IN  HorizontalRowScan(image, bounds, y, x + 1, undefined,
                             IF LongerThan80Percent(lineLength, bounds.width)
                             THEN Append(lines,
                                    [type |-> "horizontal-line", x |-> lineStart[1], y |-> y,
                                     length |-> lineLength, thickness |-> 1,
                                     color |-> ColorAt(image, lineStart[1], y)])
                             ELSE lines)
                  ELSE HorizontalRowScan(image, bounds, y, x + 1, lineStart, lines)

\* the concatenation f[lo] \o ... \o f[hi]
RECURSIVE ConcatFrom(_, _, _)
ConcatFrom(f, lo, hi) ==
    IF lo > hi THEN <<>>
    ELSE IF lo = hi THEN f[lo]
    ELSE ConcatFrom(f, lo, (lo + hi) \div 2) \o ConcatFrom(f, (lo + hi) \div 2 + 1, hi)

\* the outer loop of detectHorizontalLines over y: the lines of the rows, in order
HorizontalRows(image, bounds) ==
    LET last == bounds.y + bounds.height - 1
        rowLines == [y \in bounds.y..last |->
                        HorizontalRowScan(image, bounds, y, bounds.x, undefined, <<>>)]
    IN  ConcatFrom(rowLines, bounds.y, last)

\* consolidateLines returns its argument
consolidateLines(lines, type) == lines

detectHorizontalLines(image, bounds) ==
    consolidateLines(HorizontalRows(image, bounds), "horizontal")

RECURSIVE VerticalColumnScan(_, _, _, _, _, _)
VerticalColumnScan(image, bounds, x, y, lineStart, lines) ==
    IF y > bounds.y + bounds.height THEN lines
    ELSE LET alpha == IF y < bounds.y + bounds.height THEN AlphaAt(image, x, y) ELSE 0
         IN  IF alpha > 0 /\ lineStart = undefined
             THEN VerticalColumnScan(image, bounds, x, y + 1, Some(y), lines)
             ELSE IF (alpha = 0 \/ y = bounds.y + bounds.height) /\ lineStart # undefined
                  THEN LET lineLength == y - lineStart[1]
                       IN  VerticalColumnScan(image, bounds, x, y + 1, undefined,
                             IF LongerThan80Percent(lineLength, bounds.height)
                             THEN Append(lines,
                                    [type |-> "vertical-line", x |-> x, y |-> lineStart[1],
                                     length |-> lineLength, thickness |-> 1,
                                     color |-> ColorAt(image, x, lineStart[1])])
                             ELSE lines)
                  ELSE VerticalColumnScan(image, bounds, x, y + 1, lineStart, lines)

\* the outer loop of detectVerticalLines over x: the lines of the columns, in order
VerticalColumns(image, bounds) ==
    LET last == bounds.x + bounds.width - 1
        columnLines == [x \in bounds.x..last |->
                           VerticalColumnScan(image, bounds, x, bounds.y, undefined, <<>>)]
    IN  ConcatFrom(columnLines, bounds.x, last)

detectVerticalLines(image, bounds) ==
    consolidateLines(VerticalColumns(image, bounds), "vertical")

\* a buggy variant: the quotient test multiplied out without regard to the sign
\* of totalPixels
checkIfRectangleUnsigned(image, bounds) ==
    LET totalPixels == bounds.width * bounds.height
        filledPixels ==
            Cardinality({ <<x, y>> \in (bounds.x..(bounds.x + bounds.width - 1))
                                        \X (bounds.y..(bounds.y + bounds.height - 1)) :
                            AlphaAt(image, x, y) > 200 })
    IN  100 * filledPixels > 95 * totalPixels

\* filledPixels / totalPixels > 0.95 (NaN and negative quotients compare false)
checkIfRectangle(image, bounds) ==
    LET totalPixels == bounds.width * bounds.height
        filledPixels ==
            Cardinality({ <<x, y>> \in (bounds.x..(bounds.x + bounds.width - 1))
                                        \X (bounds.y..(bounds.y + bounds.height - 1)) :
                            AlphaAt(image, x, y) > 200 })
    IN  totalPixels > 0 /\ 100 * filledPixels > 95 * totalPixels

sampleDominantColor(image, bounds) ==
    LET centerX == bounds.x + (bounds.width \div 2)
        centerY == bounds.y + (bounds.height \div 2)
    IN  ColorAt(image, centerX, centerY)

detectRectangles(image, bounds) ==
    IF checkIfRectangle(image, bounds)
    THEN << [type |-> "rectangle", x |-> bounds.x, y |-> bounds.y,
             width |-> bounds.width, height |-> bounds.height,
             color |-> sampleDominantColor(image, bounds), cornerRadius |-> 0] >>
    ELSE <<>>

measureCornerRadius(image, corner, sampleSize, cornerName) ==
    LET dx == IF cornerName \in {"topLeft", "bottomLeft"} THEN 1 ELSE -1
        dy == IF cornerName \in {"topLeft", "topRight"} THEN 1 ELSE -1
        startX == IF dx = 1 THEN corner.x ELSE corner.x + sampleSize - 1
        startY == IF dy = 1 THEN corner.y ELSE corner.y + sampleSize - 1
        found == { i \in 0..(sampleSize - 1) :
                     AlphaAt(image, startX + dx * i, startY + dy * i) > 128 }
    IN  IF found = {} THEN 0 ELSE SetMin(found)

\* a buggy variant: the radius is averaged over all four corners
analyzeCornersAllFour(image, bounds) ==
    LET sampleSize == Min2(20, Min2(bounds.width, bounds.height) \div 4)
        cornerRegions ==
            [topLeft     |-> [x |-> bounds.x, y |-> bounds.y],
             topRight    |-> [x |-> bounds.x + bounds.width - sampleSize, y |-> bounds.y],
             bottomLeft  |-> [x |-> bounds.x, y |-> bounds.y + bounds.height - sampleSize],
             bottomRight |-> [x |-> bounds.x + bounds.width - sampleSize,
                              y |-> bounds.y + bounds.height - sampleSize]]
        cornerResults ==
            [name \in DOMAIN cornerRegions |->
                measureCornerRadius(image, cornerRegions[name], sampleSize, name)]
        rounded == { name \in DOMAIN cornerRegions : cornerResults[name] > 0 }
        totalRadius == cornerResults.topLeft + cornerResults.topRight
                       + cornerResults.bottomLeft + cornerResults.bottomRight
    IN  [hasRounding |-> rounded # {},
         radius      |-> IF rounded # {} THEN RoundDiv(totalRadius, 4) ELSE 0,
         individual  |-> cornerResults]

analyzeCorners(image, bounds) ==
    LET sampleSize == Min2(20, Min2(bounds.width, bounds.height) \div 4)
        cornerRegions ==
            [topLeft     |-> [x |-> bounds.x, y |-> bounds.y],
             topRight    |-> [x |-> bounds.x + bounds.width - sampleSize, y |-> bounds.y],
             bottomLeft  |-> [x |-> bounds.x, y |-> bounds.y + bounds.height - sampleSize],
             bottomRight |-> [x |-> bounds.x + bounds.width - sampleSize,
                              y |-> bounds.y + bounds.height - sampleSize]]
        cornerResults ==
            [name \in DOMAIN cornerRegions |->
                measureCornerRadius(image, cornerRegions[name], sampleSize, name)]
        rounded == { name \in DOMAIN cornerRegions : cornerResults[name] > 0 }
        totalRadius == cornerResults.topLeft + cornerResults.topRight
                       + cornerResults.bottomLeft + cornerResults.bottomRight
        roundedCorners == Cardinality(rounded)
    IN  [hasRounding |-> roundedCorners > 0,
         radius      |-> IF roundedCorners > 0 THEN RoundDiv(totalRadius, roundedCorners) ELSE 0,
         individual  |-> cornerResults]

detectRoundedRectangles(image, bounds) ==
    LET corners == analyzeCorners(image, bounds)
    IN  IF corners.hasRounding
        THEN << [type |-> "rounded-rectangle", x |-> bounds.x, y |-> bounds.y,
                 width |-> bounds.width, height |-> bounds.height,
                 color |-> sampleDominantColor(image, bounds),
                 cornerRadius |-> corners.radius, corners |-> corners.individual] >>
        ELSE <<>>

\* a buggy variant: the plain-rectangle test is made whatever the rounded one found
RectangleShapesBoth(image, bounds) ==
    detectRoundedRectangles(image, bounds) \o detectRectangles(image, bounds)

\* the shapes pushed by the rounded / plain rectangle step of decomposeIntoShapes
RectangleShapes(image, bounds) ==
    LET roundedRects == detectRoundedRectangles(image, bounds)
    IN  IF Len(roundedRects) > 0 THEN roundedRects ELSE detectRectangles(image, bounds)

decomposeIntoShapes(image) ==
    LET found == findContentBounds(image)
    IN  IF found = undefined
        THEN [shapes |-> <<>>, isEmpty |-> TRUE, bounds |-> undefined]
        ELSE LET bounds == found[1]
                 shapes == RectangleShapes(image, bounds)
                           \o detectHorizontalLines(image, bounds)
                           \o detectVerticalLines(image, bounds)
             IN  [shapes |-> shapes, bounds |-> found, isEmpty |-> Len(shapes) = 0]

(***************************************************************************)
(* Nine-slice borders (ImageGridAnalyzer)                                  *)
(***************************************************************************)
\* the loop over shapeAnalysis.shapes on the border b, all four borders being
\* updated alike
RECURSIVE RefineBorder(_, _, _)
RefineBorder(shapes, k, b) ==
    IF k > Len(shapes) THEN b
    ELSE IF shapes[k].type = "rounded-rectangle" /\ shapes[k].cornerRadius > 0
         THEN RefineBorder(shapes, k + 1, Max2(b, shapes[k].cornerRadius + 2))
         ELSE RefineBorder(shapes, k + 1, b)

\* a buggy variant: the default border is 16 whatever the size of the bounds
calculateNineSliceBordersFixed(image, analysis) ==
    IF analysis.isEmpty THEN undefined
    ELSE LET bounds == analysis.bounds[1]
             defaultBorder == 16
             border == RefineBorder(analysis.shapes, 1, defaultBorder)
         IN  Some([top |-> border, right |-> border, bottom |-> border, left |-> border])

\* null is undefined, the borders are returned as Some([top, right, bottom, left])
calculateNineSliceBorders(image, analysis) ==
    IF analysis.isEmpty THEN undefined
    ELSE LET bounds == analysis.bounds[1]
             defaultBorder == Min2(Min2(bounds.width \div 4, bounds.height \div 4), 16)
         IN  Some([top    |-> RefineBorder(analysis.shapes, 1, defaultBorder),
                   right  |-> RefineBorder(analysis.shapes, 1, defaultBorder),
                   bottom |-> RefineBorder(analysis.shapes, 1, defaultBorder),
                   left   |-> RefineBorder(analysis.shapes, 1, defaultBorder)])

(***************************************************************************)
(* Background remover                                                      *)
(***************************************************************************)
DEFAULT_BACKGROUND_REMOVAL == 30
DEFAULT_REMOVE_TOLERANCE == 10

\* window.gridSettings.backgroundRemoval, 30 when it is undefined
getBackgroundRemovalSetting(settings) ==
    IF settings.backgroundRemoval # undefined THEN settings.backgroundRemoval[1]
    ELSE DEFAULT_BACKGROUND_REMOVAL

\* the points sampled by sampleBackgroundPoints, in the order of the code
\* a buggy variant: the far inset points are taken at width - inset and
\* height - inset
backgroundCornerPointsOffByOne(width, height) ==
    LET inset == Min2(3, Min2(width, height) \div 4)
    IN  << [x |-> 0, y |-> 0], [x |-> width - 1, y |-> 0],
           [x |-> 0, y |-> height - 1], [x |-> width - 1, y |-> height - 1] >>
        \o (IF width > inset * 2 /\ height > inset * 2
            THEN << [x |-> inset, y |-> inset], [x |-> width - inset, y |-> inset],
                    [x |-> inset, y |-> height - inset],
                    [x |-> width - inset, y |-> height - inset] >>
            ELSE <<>>)

\* the cornerPoints of sampleBackgroundPoints
backgroundCornerPoints(width, height) ==
    LET inset == Min2(3, Min2(width, height) \div 4)
    IN  << [x |-> 0, y |-> 0], [x |-> width - 1, y |-> 0],
           [x |-> 0, y |-> height - 1], [x |-> width - 1, y |-> height - 1] >>
        \o (IF width > inset * 2 /\ height > inset * 2
            THEN << [x |-> inset, y |-> inset], [x |-> width - 1 - inset, y |-> inset],
                    [x |-> inset, y |-> height - 1 - inset],
                    [x |-> width - 1 - inset, y |-> height - 1 - inset] >>
            ELSE <<>>)

sampleBackgroundPoints(image) ==
    LET cornerPoints == backgroundCornerPoints(image.width, image.height)
    IN  [k \in 1..Len(cornerPoints) |->
            LET index == cornerPoints[k].y * image.width + cornerPoints[k].x
            IN  IF index \in DOMAIN image.data THEN image.data[index]
                ELSE [r |-> undefined, g |-> undefined, b |-> undefined, a |-> undefined]]

\* the square of colorDistance: dr*dr + dg*dg + db*db
colorDistanceSquared(color1, color2) ==
    (color1.r - color2.r) * (color1.r - color2.r)
      + (color1.g - color2.g) * (color1.g - color2.g)
      + (color1.b - color2.b) * (color1.b - color2.b)

\* colorDistance(color1, color2) <= tolerance, for an integer tolerance >= 0
withinColorDistance(color1, color2, tolerance) ==
    colorDistanceSquared(color1, color2) <= tolerance * tolerance

\* the grouping loop of findMostCommonColor: a color joins the first group whose
\* first member is within distance 20, or else opens a new group
RECURSIVE GroupColors(_, _, _)
GroupColors(colors, k, colorGroups) ==
    IF k > Len(colors) THEN colorGroups
    ELSE LET color == colors[k]
             near == { j \in 1..Len(colorGroups) :
                         withinColorDistance(color, colorGroups[j][1], 20) }
         IN  IF near = {}
             THEN GroupColors(colors, k + 1, Append(colorGroups, <<color>>))
             ELSE LET j == SetMin(near)
                  IN  GroupColors(colors, k + 1,
                          [colorGroups EXCEPT ![j] = Append(@, color)])

RECURSIVE SumChannel(_, _, _)
SumChannel(group, channel, k) ==
    IF k > Len(group) THEN 0 ELSE group[k][channel] + SumChannel(group, channel, k + 1)

findMostCommonColor(colors) ==
    IF Len(colors) = 0 THEN [r |-> 255, g |-> 255, b |-> 255, a |-> 255]
    ELSE LET colorGroups == GroupColors(colors, 1, <<>>)
             \* the first group of the greatest length
             largest == CHOOSE j \in 1..Len(colorGroups) :
                           /\ \A i \in 1..Len(colorGroups) :
                                 Len(colorGroups[i]) <= Len(colorGroups[j])
                           /\ \A i \in 1..(j - 1) :
                                 Len(colorGroups[i]) < Len(colorGroups[j])
             largestGroup == colorGroups[largest]
         IN  [r |-> RoundDiv(SumChannel(largestGroup, "r", 1), Len(largestGroup)),
              g |-> RoundDiv(SumChannel(largestGroup, "g", 1), Len(largestGroup)),
              b |-> RoundDiv(SumChannel(largestGroup, "b", 1), Len(largestGroup)),
              a |-> RoundDiv(SumChannel(largestGroup, "a", 1), Len(largestGroup))]

\* a buggy variant: only the top and the bottom edge are queued
edgeQueueRows(width, height) ==
    [k \in 1..(2 * width) |->
        IF k % 2 = 1 THEN (k - 1) \div 2 ELSE (height - 1) * width + (k - 2) \div 2]

\* the queue floodFillFromEdges starts from: top and bottom edge for each x,
\* then left and right edge for each y
edgeQueue(width, height) ==
    [k \in 1..(2 * width) |->
        IF k % 2 = 1 THEN (k - 1) \div 2 ELSE (height - 1) * width + (k - 2) \div 2]
    \o [k \in 1..(2 * height) |->
        IF k % 2 = 1 THEN ((k - 1) \div 2) * width
        ELSE ((k - 2) \div 2) * width + width - 1]

\* a buggy variant of the loop iteration: the lower-right diagonal neighbour is
\* queued as well, so that the fill passes between two content pixels that
\* touch at a corner
floodFillStepDiagonal(mask, width, height, s) ==
    IF s.queue = <<>> THEN s
    ELSE LET index == Head(s.queue)
             rest == Tail(s.queue)
             x == index % width
             y == index \div width
         IN  IF s.visited[index] = 1 \/ mask[index] = 0
             THEN [s EXCEPT !.queue = rest]
             ELSE [queue   |-> rest
                                \o (IF x > 0 THEN <<index - 1>> ELSE <<>>)
                                \o (IF x < width - 1 THEN <<index + 1>> ELSE <<>>)
                                \o (IF y > 0 THEN <<index - width>> ELSE <<>>)
                                \o (IF y < height - 1 THEN <<index + width>> ELSE <<>>)
                                \o (IF x < width - 1 /\ y < height - 1
                                    THEN <<index + width + 1>> ELSE <<>>),
                   visited |-> [s.visited EXCEPT ![index] = 1],
                   result  |-> [s.result EXCEPT ![index] = 1]]

\* one iteration of the while loop of floodFillFromEdges on the state
\* [queue, visited, result]; on an empty queue the loop has ended
floodFillStep(mask, width, height, s) ==
    IF s.queue = <<>> THEN s
    ELSE LET index == Head(s.queue)
             rest == Tail(s.queue)
             x == index % width
             y == index \div width
         IN  IF s.visited[index] = 1 \/ mask[index] = 0
             THEN [s EXCEPT !.queue = rest]
             ELSE [queue   |-> rest
                                \o (IF x > 0 THEN <<index - 1>> ELSE <<>>)
                                \o (IF x < width - 1 THEN <<index + 1>> ELSE <<>>)
                                \o (IF y > 0 THEN <<index - width>> ELSE <<>>)
                                \o (IF y < height - 1 THEN <<index + width>> ELSE <<>>),
                   visited |-> [s.visited EXCEPT ![index] = 1],
                   result  |-> [s.result EXCEPT ![index] = 1]]

\* count iterations of the loop, run as two halves; the second half is skipped
\* when the first one has emptied the queue
RECURSIVE floodFillLoop(_, _, _, _, _)
floodFillLoop(mask, width, height, s, count) ==
    IF count = 0 THEN s
    ELSE IF count = 1 THEN floodFillStep(mask, width, height, s)
    ELSE LET half == floodFillLoop(mask, width, height, s, count \div 2)
         IN  IF half.queue = <<>> THEN half
             ELSE floodFillLoop(mask, width, height, half, count - count \div 2)

\* the queue receives 2*(width+height) entries at the start and at most four per
\* pixel marked, and every iteration removes one entry
floodFillIterations(width, height) == 2 * (width + height) + 4 * width * height

\* the state of floodFillFromEdges when its loop has run
floodFillRun(mask, width, height) ==
    floodFillLoop(mask, width, height,
        [queue   |-> edgeQueue(width, height),
         visited |-> [i \in 0..(width * height - 1) |-> 0],
         result  |-> [i \in 0..(width * height - 1) |-> 0]],
        floodFillIterations(width, height))

floodFillFromEdges(mask, width, height) == floodFillRun(mask, width, height).result

\* mask[i] before the flood fill: 1 when the pixel is within tolerance of the
\* background color
candidateMask(image, backgroundColor, tolerance) ==
    [i \in 0..(image.width * image.height - 1) |->
        IF withinColorDistance(image.data[i], backgroundColor, tolerance) THEN 1 ELSE 0]

createBackgroundMask(image, backgroundColor, tolerance) ==
    floodFillFromEdges(candidateMask(image, backgroundColor, tolerance),
                       image.width, image.height)

\* a buggy variant: a masked pixel is cleared in all four channels
applyTransparencyMaskClearsPixel(image, mask) ==
    [image EXCEPT !.data = [i \in DOMAIN mask |->
                               IF mask[i] = 1 THEN [r |-> 0, g |-> 0, b |-> 0, a |-> 0]
                               ELSE image.data[i]]]

applyTransparencyMask(image, mask) ==
    [image EXCEPT !.data = [i \in DOMAIN mask |->
                               IF mask[i] = 1 THEN [image.data[i] EXCEPT !.a = 0]
                               ELSE image.data[i]]]

\* a buggy variant: the test on the pixel's own alpha is missing
isShadowPixelAnyAlpha(data, x, y, width, height) ==
    LET directions == { <<-1, 0>>, <<1, 0>>, <<0, -1>>, <<0, 1>> }
        transparentNeighbors ==
            Cardinality({ d \in directions :
                            /\ x + d[1] >= 0 /\ x + d[1] < width
                            /\ y + d[2] >= 0 /\ y + d[2] < height
                            /\ data[(y + d[2]) * width + x + d[1]].a = 0 })
    IN  transparentNeighbors >= 2

\* data is the pixel function; (x, y) lies inside the image
isShadowPixel(data, x, y, width, height) ==
    LET currentAlpha == data[y * width + x].a
        directions == { <<-1, 0>>, <<1, 0>>, <<0, -1>>, <<0, 1>> }
        transparentNeighbors ==
            Cardinality({ d \in directions :
                            /\ x + d[1] >= 0 /\ x + d[1] < width
                            /\ y + d[2] >= 0 /\ y + d[2] < height
                            /\ data[(y + d[2]) * width + x + d[1]].a = 0 })
    IN  transparentNeighbors >= 2 /\ currentAlpha < 128

MaxChannel(p) == Max2(p.r, Max2(p.g, p.b))
MinChannel(p) == Min2(p.r, Min2(p.g, p.b))

\* a fully opaque neighbour (8 directions) with saturation > 0.3 or
\* brightness > 150, where saturation = (max - min) / max (0 when max = 0) and
\* brightness = (r + g + b) / 3
checkForStrongNeighbor(data, x, y, width, height) ==
    \E dx \in {-1, 0, 1}, dy \in {-1, 0, 1} :
        /\ <<dx, dy>> # <<0, 0>>
        /\ x + dx >= 0 /\ x + dx < width /\ y + dy >= 0 /\ y + dy < height
        /\ LET p == data[(y + dy) * width + x + dx]
           IN  /\ p.a = 255
               /\ \/ (MaxChannel(p) # 0
                        /\ 10 * (MaxChannel(p) - MinChannel(p)) > 3 * MaxChannel(p))
                  \/ p.r + p.g + p.b > 450

\* saturation < 0.3 - aggressiveness / 500 and brightness < 200, in integers
\* (multiplied by 500 * max and by 3)
isShadowLike(p, aggressiveness) ==
    /\ IF MaxChannel(p) = 0 THEN 0 < 150 - aggressiveness
       ELSE 500 * (MaxChannel(p) - MinChannel(p)) < (150 - aggressiveness) * MaxChannel(p)
    /\ p.r + p.g + p.b < 600

\* returns the pixel function after the call
checkAndRemoveGradient(data, x, y, width, height, aggressiveness) ==
    IF x < 0 \/ x >= width \/ y < 0 \/ y >= height THEN data
    ELSE LET index == y * width + x
             alpha == data[index].a
         IN  IF alpha = 0 THEN data
             ELSE IF alpha < 250 THEN [data EXCEPT ![index].a = 0]
             ELSE IF isShadowLike(data[index], aggressiveness)
                       /\ ~checkForStrongNeighbor(data, x, y, width, height)
                  THEN [data EXCEPT ![index].a = 0]
                  ELSE data

\* a buggy variant: the scan goes one pixel deeper
gradientScanDepthDeeper(aggressiveness) == Max2(3, Min2(15, aggressiveness \div 6)) + 1

gradientScanDepth(aggressiveness) == Max2(3, Min2(15, aggressiveness \div 6))

\* the k-th call of checkAndRemoveGradient made by removeGradientShadows
\* (k from 0): per depth, two calls for each x, then two calls for each y
gradientVisit(k, width, height) ==
    LET perDepth == 2 * width + 2 * height
        depth == k \div perDepth
        r == k % perDepth
    IN  IF r < 2 * width
        THEN [x |-> r \div 2, y |-> IF r % 2 = 0 THEN depth ELSE height - 1 - depth]
        ELSE [x |-> IF (r - 2 * width) % 2 = 0 THEN depth ELSE width - 1 - depth,
              y |-> (r - 2 * width) \div 2]

\* one call of checkAndRemoveGradient by removeGradientShadows on the state
\* [data, next], next being the number of calls made; calls is their total
gradientStep(s, width, height, aggressiveness, calls) ==
    IF s.next >= calls THEN s
    ELSE [data |-> checkAndRemoveGradient(s.data, gradientVisit(s.next, width, height).x,
                                          gradientVisit(s.next, width, height).y,
                                          width, height, aggressiveness),
          next |-> s.next + 1]

\* count calls, run as two halves
RECURSIVE gradientLoop(_, _, _, _, _, _)
gradientLoop(s, width, height, aggressiveness, calls, count) ==
    IF count = 0 THEN s
    ELSE IF count = 1 THEN gradientStep(s, width, height, aggressiveness, calls)
    ELSE LET half == gradientLoop(s, width, height, aggressiveness, calls, count \div 2)
         IN  IF half.next >= calls THEN half
             ELSE gradientLoop(half, width, height, aggressiveness, calls,
                               count - count \div 2)

removeGradientShadows(image, aggressiveness) ==
    LET scanDepth == gradientScanDepth(aggressiveness)
        calls == scanDepth * (2 * image.width + 2 * image.height)
    IN  [image EXCEPT !.data = gradientLoop([data |-> image.data, next |-> 0],
                                            image.width, image.height,
                                            aggressiveness, calls, calls).data]

\* alpha < Math.max(200, 255 - aggressiveness * 1.5), doubled
belowAlphaThreshold(alpha, aggressiveness) ==
    2 * alpha < Max2(400, 510 - 3 * aggressiveness)

\* one iteration of the loop of removeSemiTransparentPixels on the state
\* [data, i]
semiTransparentStep(s, width, height, aggressiveness) ==
    IF s.i >= width * height THEN s
    ELSE [data |-> IF /\ s.data[s.i].a > 0
                      /\ belowAlphaThreshold(s.data[s.i].a, aggressiveness)
                      /\ isShadowPixel(s.data, s.i % width, s.i \div width, width, height)
                   THEN [s.data EXCEPT ![s.i].a = 0]
                   ELSE s.data,
          i    |-> s.i + 1]

\* count iterations, run as two halves
RECURSIVE semiTransparentLoop(_, _, _, _, _)
semiTransparentLoop(s, width, height, aggressiveness, count) ==
    IF count = 0 THEN s
    ELSE IF count = 1 THEN semiTransparentStep(s, width, height, aggressiveness)
    ELSE LET half == semiTransparentLoop(s, width, height, aggressiveness, count \div 2)
         IN  IF half.i >= width * height THEN half
             ELSE semiTransparentLoop(half, width, height, aggressiveness,
                                      count - count \div 2)

removeSemiTransparentPixels(image, aggressiveness) ==
    [image EXCEPT !.data = semiTransparentLoop([data |-> image.data, i |-> 0],
                                image.width, image.height, aggressiveness,
                                image.width * image.height).data]

\* the background color removeBackground settles on
dominantBackground(image) == findMostCommonColor(sampleBackgroundPoints(image))

effectiveTolerance(tolerance, settings) ==
    Max2(tolerance, getBackgroundRemovalSetting(settings) * 2)

\* removeBackground of the advanced remover; the result is a fresh buffer
removeBackground(image, tolerance, settings) ==
    LET aggressiveness == getBackgroundRemovalSetting(settings)
        mask == createBackgroundMask(image, dominantBackground(image),
                                     effectiveTolerance(tolerance, settings))
        masked == applyTransparencyMask(image, mask)
        unshadowed == removeGradientShadows(masked, Max2(aggressiveness, 25))
    IN  removeSemiTransparentPixels(unshadowed, Max2(aggressiveness, 30))

\* src/background-remover.js: the corner colors, of which the first is taken
sampleCorners(image) ==
    << image.data[0], image.data[image.width - 1],
       image.data[(image.height - 1) * image.width],
       image.data[(image.height - 1) * image.width + image.width - 1] >>

findDominantColor(colors) == colors[1]

\* removeBackground of src/background-remover.js: mask and flood fill only
removeBackgroundBasic(image, tolerance) ==
    applyTransparencyMask(image,
        createBackgroundMask(image, findDominantColor(sampleCorners(image)), tolerance))

\* the pixels removeShadowsAlongSlices visits for one slice line, in order:
\* rows startY..endY-1, each from x = 0
sliceLineVisits(sliceLine, shadowWidth, width, height) ==
    LET startY == Max2(0, sliceLine - shadowWidth)
        endY == Min2(height, sliceLine + shadowWidth)
    IN  IF endY <= startY THEN <<>>
        ELSE [k \in 1..((endY - startY) * width) |->
                [x |-> (k - 1) % width, y |-> startY + (k - 1) \div width]]

\* the pixels visited for all the slice lines, in order
shadowVisits(sliceLines, shadowWidth, width, height) ==
    ConcatFrom([k \in 1..Len(sliceLines) |->
                   sliceLineVisits(sliceLines[k], shadowWidth, width, height)],
               1, Len(sliceLines))

\* the body of the loops of removeShadowsAlongSlices on the state [data, next],
\* next being the number of pixels visited
shadowStep(s, visits, width, height) ==
    IF s.next >= Len(visits) THEN s
    ELSE LET x == visits[s.next + 1].x
             y == visits[s.next + 1].y
             index == y * width + x
         IN  [data |-> IF /\ s.data[index].a > 0
                          /\ s.data[index].a < 200
                          /\ isShadowPixel(s.data, x, y, width, height)
                       THEN [s.data EXCEPT ![index].a = 0]
                       ELSE s.data,
              next |-> s.next + 1]

\* count visits, run as two halves
RECURSIVE shadowLoop(_, _, _, _, _)
shadowLoop(s, visits, width, height, count) ==
    IF count = 0 THEN s
    ELSE IF count = 1 THEN shadowStep(s, visits, width, height)
    ELSE LET half == shadowLoop(s, visits, width, height, count \div 2)
         IN  IF half.next >= Len(visits) THEN half
             ELSE shadowLoop(half, visits, width, height, count - count \div 2)

\* the contents of the buffer after removeShadowsAlongSlices
removeShadowsAlongSlices(image, sliceLines, shadowWidth) ==
    LET visits == shadowVisits(sliceLines, shadowWidth, image.width, image.height)
    IN  [image EXCEPT !.data = shadowLoop([data |-> image.data, next |-> 0], visits,
                                          image.width, image.height, Len(visits)).data]

DEFAULT_SHADOW_WIDTH == 3

\* a buggy variant of the call: the passes run on the buffer handed in
removeBackgroundInPlace(image, tolerance, settings) ==
    [argument |-> removeBackground(image, tolerance, settings),
     returned |-> removeBackground(image, tolerance, settings),
     buffer   |-> "argument"]

\* a call of removeBackground: the contents of the buffer handed in after the
\* call, the contents of the buffer returned, and whether the buffer returned is
\* the argument or a fresh one (new ImageData(new Uint8ClampedArray(...)))
removeBackgroundCall(image, tolerance, settings) ==
    [argument |-> image,
     returned |-> removeBackground(image, tolerance, settings),
     buffer   |-> "fresh"]

\* a call of removeShadowsAlongSlices: it writes to imageData.data and returns
\* imageData
removeShadowsAlongSlicesCall(image, sliceLines, shadowWidth) ==
    [argument |-> removeShadowsAlongSlices(image, sliceLines, shadowWidth),
     returned |-> removeShadowsAlongSlices(image, sliceLines, shadowWidth),
     buffer   |-> "argument"]

(***************************************************************************)
(* ImageGridAnalyzer.analyze and splitImage                                *)
(***************************************************************************)
\* the element of a one-element set: a value computed once
TheValue(S) == CHOOSE v \in S : TRUE

\* ctx.getImageData(sx, sy, sw, sh) of a canvas holding the image; pixels
\* outside the canvas are transparent black
getImageData(image, sx, sy, sw, sh) ==
    [width  |-> sw,
     height |-> sh,
     data   |-> [i \in 0..(sw * sh - 1) |->
                   LET x == sx + (i % sw)
                       y == sy + (i \div sw)
                   IN  IF x >= 0 /\ x < image.width /\ y >= 0 /\ y < image.height
                       THEN image.data[y * image.width + x]
                       ELSE [r |-> 0, g |-> 0, b |-> 0, a |-> 0]]]

\* splitImage: one entry per grid line segment, then one per cell, split again
\* by type
splitImage(image, config) ==
    LET lineEntries ==
            [k \in 1..Len(config.gridLineSegments) |->
                LET segment == config.gridLineSegments[k]
                IN  [id |-> segment.id, type |-> segment.type,
                     x |-> segment.x, y |-> segment.y,
                     width |-> segment.width, height |-> segment.height,
                     imageData |-> getImageData(image, segment.x, segment.y,
                                                segment.width, segment.height)]]
        cellEntries ==
            [k \in 1..Len(config.cells) |->
                LET cell == config.cells[k]
                IN  [id |-> <<"cell", cell.row, cell.col>>, type |-> cell.type,
                     row |-> cell.row, col |-> cell.col,
                     x |-> cell.x, y |-> cell.y,
                     width |-> cell.width, height |-> cell.height,
                     imageData |-> getImageData(image, cell.x, cell.y,
                                                cell.width, cell.height)]]
        allSegments == lineEntries \o cellEntries
        isCell(entry) == entry.type = "cell"
        isGridLine(entry) == entry.type # "cell"
    IN  [gridLines |-> SelectSeq(allSegments, isGridLine),
         cells     |-> SelectSeq(allSegments, isCell)]

\* the record pushed to gridLineComponents for one segment
gridLineComponent(segment) ==
    [id |-> segment.id, name |-> segment.id, type |-> segment.type,
     sourceX |-> segment.x, sourceY |-> segment.y,
     width |-> segment.width, height |-> segment.height,
     imageData |-> segment.imageData,
     shapes |-> decomposeIntoShapes(segment.imageData).shapes,
     nineSlice |-> undefined]

\* the record pushed to components for one cell; each const of the loop body
\* is computed once and bound
cellComponent(cell, settings) ==
    TheValue({ TheValue({ TheValue({
        [id |-> cell.id, name |-> <<"widget", cell.row, cell.col>>, type |-> cell.type,
         row |-> cell.row, col |-> cell.col,
         sourceX |-> cell.x, sourceY |-> cell.y,
         width |-> cell.width, height |-> cell.height,
         imageData |-> cleaned,
         shapes |-> shapes.shapes,
         nineSlice |-> calculateNineSliceBorders(cleaned, shapes)] :
            shapes \in {decomposeIntoShapes(cleaned)} }) :
            cleaned \in {removeShadowsAlongSlices(removed, <<0, cell.height - 1>>,
                                                  DEFAULT_SHADOW_WIDTH)} }) :
            removed \in {removeBackground(cell.imageData, DEFAULT_REMOVE_TOLERANCE,
                                          settings)} })

\* a buggy variant: the lists of the analyzer are not emptied before the run
analyzeStepsAccumulating(self, config, splitData, settings) ==
    [gridConfig |-> config,
     gridLineComponents |->
         self.gridLineComponents
             \o [k \in 1..Len(splitData.gridLines) |->
                    gridLineComponent(splitData.gridLines[k])],
     components |->
         self.components
             \o [k \in 1..Len(splitData.cells) |->
                    cellComponent(splitData.cells[k], settings)]]

\* steps 3 and 4 of analyze() on the analyzer self = [gridConfig, components,
\* gridLineComponents], given the grid config and the split data of steps 1
\* and 2: the fields after the call
analyzeSteps(self, config, splitData, settings) ==
    [gridConfig |-> config,
     gridLineComponents |->
         [k \in 1..Len(splitData.gridLines) |->
             gridLineComponent(splitData.gridLines[k])],
     components |->
         [k \in 1..Len(splitData.cells) |->
             cellComponent(splitData.cells[k], settings)]]

\* analyze() on an analyzer whose source image is loaded; the grid config is
\* computed once and handed on
analyze(self, image, settings) ==
    TheValue({ TheValue({ analyzeSteps(self, config, splitData, settings) :
                            splitData \in {splitImage(image, config)} }) :
               config \in {detectGrid(image, settings)} })

(***************************************************************************)
(* Inputs                                                                  *)
(***************************************************************************)
Pixel(r, g, b, a) == [r |-> r, g |-> g, b |-> b, a |-> a]

\* the ordered list of the elements of a finite set of integers
RECURSIVE SortedSeq(_)
SortedSeq(S) ==
    IF S = {} THEN <<>>
    ELSE LET m == CHOOSE v \in S : \A u \in S : v <= u
         IN  <<m>> \o SortedSeq(S \ {m})

\* a divider group of the given center and width (start and end chosen so that
\* round((start + end) / 2) = center)
GroupAt(center, width) ==
    [start  |-> center - (width \div 2),
     end    |-> center - (width \div 2) + width - 1,
     center |-> center,
     width  |-> width]

\* ordered lists of at most MaxGroups groups, strictly increasing centers in
\* 0..MaxCenter, any widths in 1..MaxGroupWidth
GroupLists(maxCenter, maxGroupWidth, maxGroups) ==
    UNION { { [i \in 1..Cardinality(C) |-> GroupAt(SortedSeq(C)[i], wf[SortedSeq(C)[i]])] :
                wf \in [C -> 1..maxGroupWidth] } :
            C \in { D \in SUBSET (0..maxCenter) : Cardinality(D) <= maxGroups } }

\* a synthetic grid image: divider rows R and divider columns C in one color,
\* the pixels between them filled by the pattern `fill`
DividerColor == Pixel(0, 0, 0, 255)
NearDividerColor == Pixel(4, 4, 4, 255)
CellColorA == Pixel(200, 0, 0, 255)
CellColorB == Pixel(0, 200, 0, 255)
FadedColor == Pixel(0, 0, 0, 0)

SynthPixel(x, y, R, C, fill) ==
    IF y \in R \/ x \in C
    THEN IF fill = "jpeg" /\ (x + y) % 2 = 1 THEN NearDividerColor ELSE DividerColor
    ELSE IF fill = "solid" THEN CellColorA
         ELSE IF fill = "faded" THEN FadedColor
         ELSE IF (x + y) % 2 = 0 THEN CellColorA ELSE CellColorB

SynthImage(w, h, R, C, fill) ==
    [width  |-> w,
     height |-> h,
     data   |-> [i \in 0..(w * h - 1) |-> SynthPixel(i % w, i \div w, R, C, fill)]]

GapChoices == {undefined} \cup { Some(g) : g \in 2..MaxGap }

GridSettingsChoices(fill) ==
    [tolerance : IF fill = "jpeg" THEN {undefined, Some(0)} ELSE {undefined},
     minXGap   : GapChoices,
     minYGap   : GapChoices,
     backgroundRemoval : {undefined}]

NoSettings ==
    [tolerance |-> undefined, minXGap |-> undefined, minYGap |-> undefined,
     backgroundRemoval |-> undefined]

\* every image of up to maxSide x maxSide pixels whose alphas are
\* transparent, faint (<= 200) or solid (> 200); the color encodes the position
SmallImages(maxSide) ==
    UNION { { [width |-> w, height |-> h,
               data |-> [i \in 0..(w * h - 1) |-> Pixel(i % w, i \div w, 0, alpha[i])]] :
                alpha \in [0..(w * h - 1) -> {0, 150, 255}] } :
            <<w, h>> \in (1..maxSide) \X (1..maxSide) }

\* a box of n x n pixels of alpha fillAlpha inside a transparent margin; corner k
\* has the cuts[k] diagonals nearest to the corner set to cutAlpha
BoxImage(n, margin, cuts, fillAlpha, cutAlpha) ==
    LET side == n + 2 * margin
        alphaAt(x, y) ==
            IF x < margin \/ y < margin \/ x >= margin + n \/ y >= margin + n THEN 0
            ELSE LET bx == x - margin
                     by == y - margin
                     left == bx < n - 1 - bx
                     top == by < n - 1 - by
                     k == IF top THEN (IF left THEN 1 ELSE 2) ELSE (IF left THEN 3 ELSE 4)
                     d == Min2(bx, n - 1 - bx) + Min2(by, n - 1 - by)
                 IN  IF d < cuts[k] THEN cutAlpha ELSE fillAlpha
    IN  [width |-> side, height |-> side,
         data |-> [i \in 0..(side * side - 1) |->
                     Pixel(i % side, i \div side, 0, alphaAt(i % side, i \div side))]]

BoxImages(maxBox, maxCut) ==
    { BoxImage(n, margin, cuts, fillAlpha, cutAlpha) :
        n \in 8..maxBox, margin \in {0, 1}, cuts \in [1..4 -> 0..maxCut],
        fillAlpha \in {150, 255}, cutAlpha \in {0, 100} }

\* the 50 x 4 fully opaque red strip
StripImage ==
    [width |-> 50, height |-> 4, data |-> [i \in 0..199 |-> Pixel(255, 0, 0, 255)]]

\* the 64 x 64 opaque magenta square with corners rounded by circles of radius 8
\* on a transparent background: a pixel is opaque when its center lies inside
\* (coordinates doubled to stay in the integers)
RoundedSquareImage ==
    LET n == 64
        radius == 8
        opaque(x, y) ==
            LET mx == Min2(x, n - 1 - x)
                my == Min2(y, n - 1 - y)
                ex == 2 * radius - (2 * mx + 1)
                ey == 2 * radius - (2 * my + 1)
            IN  (mx < radius /\ my < radius) => ex * ex + ey * ey <= 4 * radius * radius
    IN  [width |-> n, height |-> n,
         data |-> [i \in 0..(n * n - 1) |->
                     Pixel(255, 0, 255, IF opaque(i % n, i \div n) THEN 255 ELSE 0)]]

\* the buffers of up to maxSide x maxSide with width = 0 or height = 0: no data
ZeroSizedImages(maxSide) ==
    { [width |-> w, height |-> h, data |-> [i \in 0..(w * h - 1) |-> Pixel(0, 0, 0, 0)]] :
        <<w, h>> \in { s \in (0..maxSide) \X (0..maxSide) : s[1] = 0 \/ s[2] = 0 } }

\* opaque boxes of 12 x 12 pixels, whose corner sample is 3 pixels wide, with
\* transparent corner cuts of 0..maxCut diagonals
WideBoxImages(maxCut) ==
    { BoxImage(12, margin, cuts, 255, 0) : margin \in {0, 1}, cuts \in [1..4 -> 0..maxCut] }

ShapeInputs(maxSmallSide, maxBox, maxCut) ==
    SmallImages(maxSmallSide) \cup ZeroSizedImages(maxSmallSide)
        \cup BoxImages(maxBox, maxCut) \cup {StripImage, RoundedSquareImage}

\* every image of w x 2 and of 2 x w pixels, w up to maxRun, whose alphas are 0
\* or 100; the color encodes the position
RunImages(maxRun) ==
    UNION { { [width |-> s[1], height |-> s[2],
               data |-> [i \in 0..(s[1] * s[2] - 1) |->
                           Pixel(i % s[1], i \div s[1], 0, alpha[i])]] :
                alpha \in [0..(s[1] * s[2] - 1) -> {0, 100}] } :
            s \in { <<w, 2>> : w \in 1..maxRun } \cup { <<2, w>> : w \in 1..maxRun } }

\* inputs for the corner and the line detectors
DetectorInputs(maxRun, maxCut, maxSmallSide) ==
    RunImages(maxRun) \cup WideBoxImages(maxCut) \cup ZeroSizedImages(maxSmallSide)
        \cup {StripImage, RoundedSquareImage}

\* a square image of side n in the color bg, on which a one-pixel frame of
\* the color content is drawn at distance ring from the edge; the pixels inside
\* the frame have the color bg with alpha innerAlpha.  The frame is whole
\* (gap = "none"), or lacks the middle pixel of its top side (gap = "side") or
\* its top-left corner pixel (gap = "corner"), which then have the color bg
FrameImage(n, ring, gap, bg, content, innerAlpha) ==
    [width  |-> n,
     height |-> n,
     data   |-> [i \in 0..(n * n - 1) |->
                   LET x == i % n
                       y == i \div n
                       d == Min2(Min2(x, y), Min2(n - 1 - x, n - 1 - y))
                   IN  IF d < ring THEN bg
                       ELSE IF d > ring THEN [bg EXCEPT !.a = innerAlpha]
                       ELSE IF gap = "side" /\ x = n \div 2 /\ y = ring THEN bg
                       ELSE IF gap = "corner" /\ x = ring /\ y = ring THEN bg
                       ELSE content]]

FrameImages(maxSide, maxRing) ==
    { FrameImage(n, ring, gap, bg, content, innerAlpha) :
        n \in 9..maxSide, ring \in 0..maxRing, gap \in {"none", "side", "corner"},
        bg \in {Pixel(100, 100, 100, 255), Pixel(255, 255, 255, 255)},
        content \in {Pixel(0, 0, 0, 255), Pixel(220, 0, 0, 255)},
        innerAlpha \in {255, 200, 100} }

\* the smallest frame images with a partly transparent interior
FadedFrameImages(maxRing) ==
    { FrameImage(9, ring, gap, Pixel(255, 255, 255, 255), content, 100) :
        ring \in 0..maxRing, gap \in {"none", "side", "corner"},
        content \in {Pixel(0, 0, 0, 255), Pixel(220, 0, 0, 255)} }

BackgroundRemovalChoices == {undefined, Some(0), Some(100)}

\* every image of width 1 or 2 and height up to maxHeight whose alphas are
\* transparent, below 128 or between 128 and 200; the color encodes the position
ShadowImages(maxHeight) ==
    UNION { { [width |-> w, height |-> h,
               data |-> [i \in 0..(w * h - 1) |-> Pixel(i % w, i \div w, 0, alpha[i])]] :
                alpha \in [0..(w * h - 1) -> {0, 100, 150}] } :
            <<w, h>> \in (1..2) \X (1..maxHeight) }

\* one slice line anywhere in the image, or the two edges [0, height - 1] as
\* in the caller
SliceCalls(height, maxShadowWidth) ==
    [sliceLines  : { <<e>> : e \in 0..(height - 1) } \cup { <<0, height - 1>> },
     shadowWidth : 1..maxShadowWidth]

(***************************************************************************)
(* Specification of enforceMinimumGap called on one list with several gaps *)
(***************************************************************************)
InitGap ==
    /\ pc = "ready"
    /\ lineGroups \in GroupLists(MaxCenter, MaxGroupWidth, MaxGroups)
    /\ gapCalls = <<>>
    /\ sliceCall = undefined
    /\ returnedBuffer = "none"
    /\ passCalls = <<>>
    /\ nineSlice = undefined
    /\ components = <<>>
    /\ gridLineComponents = <<>>
    /\ samples = undefined
    /\ dividerIndices = undefined
    /\ initialMask = undefined
    /\ floodFill = undefined
    /\ imageData = undefined
    /\ gridSettings = NoSettings
    /\ gridConfig = undefined
    /\ cleanedData = undefined
    /\ shapeAnalysis = undefined

EnforceMinimumGapCall ==
    /\ pc = "ready"
    /\ \E minGap \in 0..MaxGap :
          gapCalls' = Append(gapCalls,
                             [minGap |-> minGap,
                              filtered |-> enforceMinimumGap(lineGroups, minGap)])
    /\ pc' = IF Len(gapCalls) = 1 THEN "done" ELSE "ready"
    /\ UNCHANGED <<imageData, gridSettings, gridConfig, cleanedData, shapeAnalysis, lineGroups,
                 sliceCall, returnedBuffer, samples, dividerIndices,
                 initialMask, floodFill, passCalls,
                   nineSlice, components, gridLineComponents>>

NextGap == EnforceMinimumGapCall

SpecGap == InitGap /\ [][NextGap]_vars

(***************************************************************************)
(* Specification of detectGrid                                             *)
(***************************************************************************)
InitGrid ==
    /\ pc = "ready"
    /\ \E w \in 1..MaxWidth, h \in 1..MaxHeight, fill \in {"solid", "checker", "jpeg", "faded"} :
          /\ \E R \in SUBSET (0..(h - 1)), C \in SUBSET (0..(w - 1)) :
                imageData = SynthImage(w, h, R, C, fill)
          /\ gridSettings \in GridSettingsChoices(fill)
    /\ gridConfig = undefined
    /\ cleanedData = undefined
    /\ shapeAnalysis = undefined
    /\ lineGroups = undefined
    /\ gapCalls = <<>>
    /\ sliceCall = undefined
    /\ returnedBuffer = "none"
    /\ passCalls = <<>>
    /\ nineSlice = undefined
    /\ components = <<>>
    /\ gridLineComponents = <<>>
    /\ samples = undefined
    /\ dividerIndices = undefined
    /\ initialMask = undefined
    /\ floodFill = undefined

DetectGridCall ==
    /\ pc = "ready"
    /\ gridConfig' = detectGrid(imageData, gridSettings)
    /\ pc' = "done"
    /\ UNCHANGED <<imageData, gridSettings, cleanedData, shapeAnalysis, lineGroups, gapCalls,
                 sliceCall, returnedBuffer, samples, dividerIndices,
                 initialMask, floodFill, passCalls,
                   nineSlice, components, gridLineComponents>>

NextGrid == DetectGridCall

SpecGrid == InitGrid /\ [][NextGrid]_vars

(***************************************************************************)
(* Specification of decomposeIntoShapes                                    *)
(***************************************************************************)
InitShape ==
    /\ pc = "ready"
    /\ imageData \in ShapeInputs(MaxSmallSide, MaxBox, MaxCut)
    /\ gridSettings = NoSettings
    /\ gridConfig = undefined
    /\ cleanedData = undefined
    /\ shapeAnalysis = undefined
    /\ lineGroups = undefined
    /\ gapCalls = <<>>
    /\ sliceCall = undefined
    /\ returnedBuffer = "none"
    /\ passCalls = <<>>
    /\ nineSlice = undefined
    /\ components = <<>>
    /\ gridLineComponents = <<>>
    /\ samples = undefined
    /\ dividerIndices = undefined
    /\ initialMask = undefined
    /\ floodFill = undefined

DecomposeCall ==
    /\ pc = "ready"
    /\ shapeAnalysis' = decomposeIntoShapes(imageData)
    /\ pc' = "done"
    /\ UNCHANGED <<imageData, gridSettings, gridConfig, cleanedData, lineGroups, gapCalls,
                 sliceCall, returnedBuffer, samples, dividerIndices,
                 initialMask, floodFill, passCalls,
                   nineSlice, components, gridLineComponents>>

NextShape == DecomposeCall

SpecShape == InitShape /\ [][NextShape]_vars

\* decomposeIntoShapes on the inputs for the corner and the line detectors
InitDetectors ==
    /\ pc = "ready"
    /\ imageData \in DetectorInputs(MaxRun, MaxCut, MaxSmallSide)
    /\ gridSettings = NoSettings
    /\ gridConfig = undefined
    /\ cleanedData = undefined
    /\ shapeAnalysis = undefined
    /\ lineGroups = undefined
    /\ gapCalls = <<>>
    /\ sliceCall = undefined
    /\ returnedBuffer = "none"
    /\ passCalls = <<>>
    /\ nineSlice = undefined
    /\ components = <<>>
    /\ gridLineComponents = <<>>
    /\ samples = undefined
    /\ dividerIndices = undefined
    /\ initialMask = undefined
    /\ floodFill = undefined

\* calculateNineSliceBorders(imageData, shapes) on the analysis of the same buffer
CalculateNineSliceBordersCall ==
    /\ pc = "done"
    /\ nineSlice' = calculateNineSliceBorders(imageData, shapeAnalysis)
    /\ pc' = "sliced"
    /\ UNCHANGED <<imageData, gridSettings, gridConfig, cleanedData, shapeAnalysis,
                   lineGroups, gapCalls, sliceCall, returnedBuffer, samples,
                   dividerIndices, initialMask, floodFill, passCalls, components,
                   gridLineComponents>>

NextDetectors == DecomposeCall \/ CalculateNineSliceBordersCall

SpecDetectors == InitDetectors /\ [][NextDetectors]_vars

(***************************************************************************)
(* Specification of removeBackground                                       *)
(***************************************************************************)
InitBg ==
    /\ pc = "ready"
    /\ imageData \in FrameImages(MaxSide, MaxRing)
    /\ gridSettings \in { [NoSettings EXCEPT !.backgroundRemoval = b] :
                            b \in BackgroundRemovalChoices }
    /\ gridConfig = undefined
    /\ cleanedData = undefined
    /\ shapeAnalysis = undefined
    /\ lineGroups = undefined
    /\ gapCalls = <<>>
    /\ sliceCall = undefined
    /\ returnedBuffer = "none"
    /\ passCalls = <<>>
    /\ nineSlice = undefined
    /\ components = <<>>
    /\ gridLineComponents = <<>>
    /\ samples = undefined
    /\ dividerIndices = undefined
    /\ initialMask = undefined
    /\ floodFill = undefined

\* const cleanedData = removeBackground(cell.imageData), advanced remover
RemoveBackgroundCall ==
    /\ pc = "ready"
    /\ LET call == removeBackgroundCall(imageData, DEFAULT_REMOVE_TOLERANCE, gridSettings)
       IN  /\ imageData' = call.argument
           /\ cleanedData' = call.returned
           /\ returnedBuffer' = call.buffer
    /\ pc' = "cleaned"
    /\ UNCHANGED <<gridSettings, gridConfig, shapeAnalysis, lineGroups, gapCalls, sliceCall,
                 samples, dividerIndices, initialMask, floodFill, passCalls,
                   nineSlice, components, gridLineComponents>>

\* the same call bound to src/background-remover.js
RemoveBackgroundBasicCall ==
    /\ pc = "ready"
    /\ cleanedData' = removeBackgroundBasic(imageData, DEFAULT_REMOVE_TOLERANCE)
    /\ pc' = "cleanedBasic"
    /\ UNCHANGED <<imageData, gridSettings, gridConfig, shapeAnalysis, lineGroups, gapCalls,
                 sliceCall, returnedBuffer, samples, dividerIndices,
                 initialMask, floodFill, passCalls,
                   nineSlice, components, gridLineComponents>>

NextBg == RemoveBackgroundCall \/ RemoveBackgroundBasicCall

SpecBg == InitBg /\ [][NextBg]_vars

(***************************************************************************)
(* Specification of removeShadowsAlongSlices, called on a buffer directly  *)
(* or on the result of removeBackground                                    *)
(***************************************************************************)
InitShadow ==
    /\ pc = "ready"
    /\ imageData \in ShadowImages(MaxShadowHeight) \cup FadedFrameImages(MaxRing)
    /\ sliceCall \in SliceCalls(imageData.height, MaxShadowWidth)
    /\ gridSettings = NoSettings
    /\ gridConfig = undefined
    /\ cleanedData = undefined
    /\ shapeAnalysis = undefined
    /\ lineGroups = undefined
    /\ gapCalls = <<>>
    /\ returnedBuffer = "none"
    /\ passCalls = <<>>
    /\ nineSlice = undefined
    /\ components = <<>>
    /\ gridLineComponents = <<>>
    /\ samples = undefined
    /\ dividerIndices = undefined
    /\ initialMask = undefined
    /\ floodFill = undefined

\* removeShadowsAlongSlices(imageData, sliceLines, shadowWidth)
RemoveShadowsCall ==
    /\ pc = "ready"
    /\ LET call == removeShadowsAlongSlicesCall(imageData, sliceCall.sliceLines,
                                                sliceCall.shadowWidth)
       IN  /\ imageData' = call.argument
           /\ cleanedData' = call.returned
           /\ returnedBuffer' = call.buffer
    /\ pc' = "shadowed"
    /\ UNCHANGED <<gridSettings, gridConfig, shapeAnalysis, lineGroups, gapCalls, sliceCall,
                 samples, dividerIndices, initialMask, floodFill, passCalls,
                   nineSlice, components, gridLineComponents>>

\* removeShadowsAlongSlices(cleanedData, [0, cell.height - 1], 3) after
\* removeBackground
RemoveShadowsOfCleanedCall ==
    /\ pc = "cleaned"
    /\ LET call == removeShadowsAlongSlicesCall(cleanedData, <<0, cleanedData.height - 1>>,
                                                DEFAULT_SHADOW_WIDTH)
       IN  /\ cleanedData' = call.argument
           /\ returnedBuffer' = call.buffer
    /\ pc' = "done"
    /\ UNCHANGED <<imageData, gridSettings, gridConfig, shapeAnalysis, lineGroups, gapCalls,
                   sliceCall,
                 samples, dividerIndices, initialMask, floodFill, passCalls,
                   nineSlice, components, gridLineComponents>>

NextShadow == RemoveShadowsCall \/ RemoveBackgroundCall \/ RemoveShadowsOfCleanedCall

SpecShadow == InitShadow /\ [][NextShadow]_vars

(***************************************************************************)
(* Specification of the divider consolidation                              *)
(***************************************************************************)
\* the lists find*Dividers build: indices of 0..maxIndex in increasing order
DividerLists(maxIndex) == { SortedSeq(S) : S \in SUBSET (0..maxIndex) }

InitConsolidate ==
    /\ pc = "ready"
    /\ dividerIndices \in DividerLists(MaxIndex)
    /\ imageData = undefined
    /\ gridSettings = NoSettings
    /\ gridConfig = undefined
    /\ cleanedData = undefined
    /\ shapeAnalysis = undefined
    /\ lineGroups = undefined
    /\ gapCalls = <<>>
    /\ sliceCall = undefined
    /\ returnedBuffer = "none"
    /\ passCalls = <<>>
    /\ nineSlice = undefined
    /\ components = <<>>
    /\ gridLineComponents = <<>>
    /\ samples = undefined
    /\ initialMask = undefined
    /\ floodFill = undefined

\* consolidateDividersToGroups(dividers) at the end of find*Dividers
ConsolidateCall ==
    /\ pc = "ready"
    /\ lineGroups' = consolidateDividersToGroups(dividerIndices)
    /\ pc' = "consolidated"
    /\ UNCHANGED <<imageData, gridSettings, gridConfig, cleanedData, shapeAnalysis,
                   gapCalls, sliceCall, returnedBuffer, samples, dividerIndices,
                   initialMask, floodFill, passCalls,
                   nineSlice, components, gridLineComponents>>

\* refineDividerCenters(lineGroups) of detectGrid
RefineCall ==
    /\ pc = "consolidated"
    /\ lineGroups' = refineDividerCenters(lineGroups)
    /\ pc' = "refined"
    /\ UNCHANGED <<imageData, gridSettings, gridConfig, cleanedData, shapeAnalysis,
                   gapCalls, sliceCall, returnedBuffer, samples, dividerIndices,
                   initialMask, floodFill, passCalls,
                   nineSlice, components, gridLineComponents>>

NextConsolidate == ConsolidateCall \/ RefineCall

SpecConsolidate == InitConsolidate /\ [][NextConsolidate]_vars

(***************************************************************************)
(* Specification of floodFillFromEdges                                     *)
(***************************************************************************)
\* every mask of 0 / 1 entries of every size of at most maxPixels pixels
CandidateMasks(maxPixels) ==
    UNION { [width : {w}, height : {h}, mask : [0..(w * h - 1) -> {0, 1}]] :
            <<w, h>> \in { s \in (1..maxPixels) \X (1..maxPixels) :
                             s[1] * s[2] <= maxPixels } }

InitFlood ==
    /\ pc = "ready"
    /\ initialMask \in CandidateMasks(MaxFloodPixels)
    /\ imageData = undefined
    /\ gridSettings = NoSettings
    /\ gridConfig = undefined
    /\ cleanedData = undefined
    /\ shapeAnalysis = undefined
    /\ lineGroups = undefined
    /\ gapCalls = <<>>
    /\ sliceCall = undefined
    /\ returnedBuffer = "none"
    /\ passCalls = <<>>
    /\ nineSlice = undefined
    /\ components = <<>>
    /\ gridLineComponents = <<>>
    /\ samples = undefined
    /\ dividerIndices = undefined
    /\ floodFill = undefined

\* floodFillFromEdges(mask, width, height) up to the end of its loop
FloodFillFromEdgesCall ==
    /\ pc = "ready"
    /\ floodFill' = floodFillRun(initialMask.mask, initialMask.width, initialMask.height)
    /\ pc' = "filled"
    /\ UNCHANGED <<imageData, gridSettings, gridConfig, cleanedData, shapeAnalysis,
                   lineGroups, gapCalls, sliceCall, returnedBuffer, samples,
                   dividerIndices, initialMask, passCalls,
                   nineSlice, components, gridLineComponents>>

NextFlood == FloodFillFromEdgesCall

SpecFlood == InitFlood /\ [][NextFlood]_vars

(***************************************************************************)
(* Specification of removeGradientShadows                                  *)
(***************************************************************************)
\* an image whose alphas run through transparent, faint, 249, 250 and opaque
\* along the diagonals, starting at `shift`, in dark grey (shadow-like), in
\* red (solid content) or in both, alternating
GradientAlphas == <<0, 100, 249, 250, 255>>

GradientImage(w, h, shift, colors) ==
    [width  |-> w,
     height |-> h,
     data   |-> [i \in 0..(w * h - 1) |->
                   LET x == i % w
                       y == i \div w
                       alpha == GradientAlphas[((x + 2 * y + shift) % 5) + 1]
                   IN  IF colors = "grey" \/ (colors = "mixed" /\ (x + y) % 2 = 0)
                       THEN Pixel(60, 60, 60, alpha)
                       ELSE Pixel(200, 0, 0, alpha)]]

GradientImages(maxSide) ==
    { GradientImage(w, h, shift, colors) :
        w \in 1..maxSide, h \in 1..maxSide, shift \in 0..4,
        colors \in {"grey", "red", "mixed"} }

\* aggressiveness values with the scan depths 3, 4, 5 and 15
AggressivenessChoices == {0, 25, 30, 100}

InitGradient ==
    /\ pc = "ready"
    /\ imageData \in GradientImages(MaxGradientSide)
    /\ gridSettings = NoSettings
    /\ gridConfig = undefined
    /\ cleanedData = undefined
    /\ shapeAnalysis = undefined
    /\ lineGroups = undefined
    /\ gapCalls = <<>>
    /\ sliceCall = undefined
    /\ returnedBuffer = "none"
    /\ passCalls = <<>>
    /\ nineSlice = undefined
    /\ components = <<>>
    /\ gridLineComponents = <<>>
    /\ samples = undefined
    /\ dividerIndices = undefined
    /\ initialMask = undefined
    /\ floodFill = undefined

\* removeGradientShadows(imageData, aggressiveness); imageData keeps the buffer
\* as it was before the call, the result is the buffer after it
RemoveGradientShadowsCall ==
    /\ pc = "ready"
    /\ \E aggressiveness \in AggressivenessChoices :
          passCalls' = Append(passCalls,
                              [aggressiveness |-> aggressiveness,
                               result |-> removeGradientShadows(imageData, aggressiveness)])
    /\ pc' = "done"
    /\ UNCHANGED <<imageData, gridSettings, gridConfig, cleanedData, shapeAnalysis,
                   lineGroups, gapCalls, sliceCall, returnedBuffer, samples,
                   dividerIndices, initialMask, floodFill,
                   nineSlice, components, gridLineComponents>>

NextGradient == RemoveGradientShadowsCall

SpecGradient == InitGradient /\ [][NextGradient]_vars

(***************************************************************************)
(* Specification of removeSemiTransparentPixels called on one buffer with  *)
(* several aggressiveness values                                           *)
(***************************************************************************)
\* alphas on both sides of 128 and of the thresholds 200, 210 and 255
SemiAlphas == {0, 127, 128, 205}

\* every image of width 1 or 2 and height up to maxHeight with these alphas
SemiImages(maxHeight) ==
    UNION { { [width |-> w, height |-> h,
               data |-> [i \in 0..(w * h - 1) |-> Pixel(i % w, i \div w, 0, alpha[i])]] :
                alpha \in [0..(w * h - 1) -> SemiAlphas] } :
            <<w, h>> \in (1..2) \X (1..maxHeight) }

\* aggressiveness values with the thresholds 255, 210, 200 (199.5 raised to
\* 200) and 200
SemiAggressivenessChoices == {0, 30, 37, 100}

InitSemi ==
    /\ pc = "ready"
    /\ imageData \in SemiImages(MaxSemiHeight)
    /\ gridSettings = NoSettings
    /\ gridConfig = undefined
    /\ cleanedData = undefined
    /\ shapeAnalysis = undefined
    /\ lineGroups = undefined
    /\ gapCalls = <<>>
    /\ sliceCall = undefined
    /\ returnedBuffer = "none"
    /\ passCalls = <<>>
    /\ nineSlice = undefined
    /\ components = <<>>
    /\ gridLineComponents = <<>>
    /\ samples = undefined
    /\ dividerIndices = undefined
    /\ initialMask = undefined
    /\ floodFill = undefined

\* removeSemiTransparentPixels(copy of imageData, aggressiveness), at most
\* twice; imageData keeps the buffer as it was before the calls
RemoveSemiTransparentPixelsCall ==
    /\ pc = "ready"
    /\ \E aggressiveness \in SemiAggressivenessChoices :
          passCalls' = Append(passCalls,
                              [aggressiveness |-> aggressiveness,
                               result |-> removeSemiTransparentPixels(imageData,
                                                                      aggressiveness)])
    /\ pc' = IF Len(passCalls) = 1 THEN "done" ELSE "ready"
    /\ UNCHANGED <<imageData, gridSettings, gridConfig, cleanedData, shapeAnalysis,
                   lineGroups, gapCalls, sliceCall, returnedBuffer, samples,
                   dividerIndices, initialMask, floodFill,
                   nineSlice, components, gridLineComponents>>

NextSemi == RemoveSemiTransparentPixelsCall

SpecSemi == InitSemi /\ [][NextSemi]_vars

(***************************************************************************)
(* Specification of ImageGridAnalyzer: images are loaded and analyzed, in  *)
(* any order                                                               *)
(***************************************************************************)
\* square grid images of side 5..maxSide: no divider, dividers at both edges,
\* at both edges and the middle, or one pixel inside the edges, on each axis
AnalyzerLines(side) ==
    { {}, {0, side - 1}, {0, side \div 2, side - 1}, {1, side - 2} }

AnalyzerImages(maxSide) ==
    UNION { { SynthImage(side, side, R, C, fill) :
                R \in AnalyzerLines(side), C \in AnalyzerLines(side),
                fill \in {"solid", "checker"} } :
            side \in 5..maxSide }

\* the constructor: no source image, no grid, empty lists
InitAnalyzer ==
    /\ pc = "created"
    /\ imageData = undefined
    /\ gridSettings = [NoSettings EXCEPT !.minXGap = Some(2), !.minYGap = Some(2)]
    /\ gridConfig = undefined
    /\ components = <<>>
    /\ gridLineComponents = <<>>
    /\ cleanedData = undefined
    /\ shapeAnalysis = undefined
    /\ lineGroups = undefined
    /\ gapCalls = <<>>
    /\ sliceCall = undefined
    /\ returnedBuffer = "none"
    /\ passCalls = <<>>
    /\ nineSlice = undefined
    /\ samples = undefined
    /\ dividerIndices = undefined
    /\ initialMask = undefined
    /\ floodFill = undefined

\* loadImage(file) resolved: this.sourceImage = img
LoadImageCall ==
    /\ imageData' \in AnalyzerImages(MaxAnalyzerSide)
    /\ UNCHANGED <<pc, gridSettings, gridConfig, cleanedData, shapeAnalysis, lineGroups,
                   gapCalls, sliceCall, returnedBuffer, samples, dividerIndices,
                   initialMask, floodFill, passCalls, nineSlice, components,
                   gridLineComponents>>

\* analyze(); it throws before changing anything when no image is loaded.  pc
\* tells whether analyze() has run never, once or more than once
AnalyzeCall ==
    /\ imageData # undefined
    /\ LET result == analyze([gridConfig |-> gridConfig, components |-> components,
                              gridLineComponents |-> gridLineComponents],
                             imageData, gridSettings)
       IN  /\ gridConfig' = result.gridConfig
           /\ components' = result.components
           /\ gridLineComponents' = result.gridLineComponents
    /\ pc' = IF pc = "created" THEN "analyzed" ELSE "reanalyzed"
    /\ UNCHANGED <<imageData, gridSettings, cleanedData, shapeAnalysis, lineGroups,
                   gapCalls, sliceCall, returnedBuffer, samples, dividerIndices,
                   initialMask, floodFill, passCalls, nineSlice>>

NextAnalyzer == LoadImageCall \/ AnalyzeCall

SpecAnalyzer == InitAnalyzer /\ [][NextAnalyzer]_vars

(***************************************************************************)
(* Specification of sampleBackgroundPoints                                 *)
(***************************************************************************)
\* the opaque images of every size up to maxSide x maxSide; the color of a
\* pixel encodes its position
SampleImages(maxSide) ==
    { [width |-> w, height |-> h,
       data |-> [i \in 0..(w * h - 1) |-> Pixel(i % w, i \div w, 0, 255)]] :
        <<w, h>> \in (1..maxSide) \X (1..maxSide) }

InitSample ==
    /\ pc = "ready"
    /\ imageData \in SampleImages(MaxSampleSide)
    /\ gridSettings = NoSettings
    /\ gridConfig = undefined
    /\ cleanedData = undefined
    /\ shapeAnalysis = undefined
    /\ lineGroups = undefined
    /\ gapCalls = <<>>
    /\ sliceCall = undefined
    /\ returnedBuffer = "none"
    /\ passCalls = <<>>
    /\ nineSlice = undefined
    /\ components = <<>>
    /\ gridLineComponents = <<>>
    /\ samples = undefined
    /\ dividerIndices = undefined
    /\ initialMask = undefined
    /\ floodFill = undefined

\* sampleBackgroundPoints(imageData): the points read and the colors returned
SampleBackgroundPointsCall ==
    /\ pc = "ready"
    /\ samples' = [cornerPoints |-> backgroundCornerPoints(imageData.width, imageData.height),
                   colors       |-> sampleBackgroundPoints(imageData)]
    /\ pc' = "sampled"
    /\ UNCHANGED <<imageData, gridSettings, gridConfig, cleanedData, shapeAnalysis,
                   lineGroups, gapCalls, sliceCall, returnedBuffer, dividerIndices,
                   initialMask, floodFill, passCalls,
                   nineSlice, components, gridLineComponents>>

NextSample == SampleBackgroundPointsCall

SpecSample == InitSample /\ [][NextSample]_vars

(***************************************************************************)
(* Claims about the grid detector                                          *)
(***************************************************************************)

\* C2: minimum-gap monotonicity.  For two calls of enforceMinimumGap on the same
\* ordered list of groups, the call with the larger (or equal) minGap never
\* retains more groups than the call with the smaller one.
MinGapMonotone ==
    \A i, j \in 1..Len(gapCalls) :
        gapCalls[i].minGap <= gapCalls[j].minGap
            => Len(gapCalls[j].filtered) <= Len(gapCalls[i].filtered)

\* two calls on a list of three groups where the larger gap dropped a group and
\* a thicker close group replaced the first one
MinGapMonotoneWitness ==
    /\ Len(gapCalls) = 2
    /\ Len(lineGroups) = 3
    /\ gapCalls[1].minGap < gapCalls[2].minGap
    /\ Len(gapCalls[2].filtered) < Len(gapCalls[1].filtered)
    /\ gapCalls[2].filtered[1] # lineGroups[1]

\* number of cells of the grid that cover the pixel (px, py)
CellsCovering(cells, px, py) ==
    Cardinality({ k \in 1..Len(cells) :
                    /\ cells[k].x <= px /\ px < cells[k].x + cells[k].width
                    /\ cells[k].y <= py /\ py < cells[k].y + cells[k].height })

\* C3: cell tiling.  With at least one slice on both axes the cells are exactly
\* the rectangles between consecutive slice centers, row by row, and every pixel
\* between the first and the last slice of both axes lies in exactly one cell,
\* every other pixel in none.
CellTiling ==
    (pc = "done" /\ Len(gridConfig.horizontalSlices) >= 1
                 /\ Len(gridConfig.verticalSlices) >= 1) =>
        LET hs == gridConfig.horizontalSlices
            vs == gridConfig.verticalSlices
            cells == gridConfig.cells
            nRows == Len(hs) - 1
            nCols == Len(vs) - 1
        IN  /\ Len(cells) = nRows * nCols
            /\ \A row \in 0..(nRows - 1), col \in 0..(nCols - 1) :
                  LET c == cells[row * nCols + col + 1]
                  IN  /\ c.row = row /\ c.col = col
                      /\ c.x = vs[col + 1] /\ c.y = hs[row + 1]
                      /\ c.width = vs[col + 2] - c.x
                      /\ c.height = hs[row + 2] - c.y
                      /\ c.width > 0 /\ c.height > 0
            /\ \A px \in 0..(imageData.width - 1), py \in 0..(imageData.height - 1) :
                  CellsCovering(cells, px, py) =
                      IF /\ vs[1] <= px /\ px < vs[Len(vs)]
                         /\ hs[1] <= py /\ py < hs[Len(hs)]
                      THEN 1 ELSE 0

\* a grid of two rows of cells and one column of cells, with a margin before the
\* first slice
CellTilingWitness ==
    /\ pc = "done"
    /\ Len(gridConfig.horizontalSlices) = 3
    /\ Len(gridConfig.verticalSlices) = 2
    /\ Len(gridConfig.cells) = 2
    /\ gridConfig.verticalSlices[1] > 0

\* C4 as stated: columns = max(verticalSlices.length - 1, 1), same for rows.
GridSizeAtLeastOne ==
    pc = "done" =>
        /\ gridConfig.columns = Max2(Len(gridConfig.verticalSlices) - 1, 1)
        /\ gridConfig.rows = Max2(Len(gridConfig.horizontalSlices) - 1, 1)

\* C4 amended: columns is the number of gaps between vertical slices,
\* verticalSlices.length - 1, whenever there is a vertical slice (0 for a single
\* slice), and 1 when there is none; same for rows.  An image with dividers on
\* one axis only has 1 column (or 1 row) on the other.
GridSizeIsGapCount ==
    pc = "done" =>
        LET nv == Len(gridConfig.verticalSlices)
            nh == Len(gridConfig.horizontalSlices)
        IN  /\ nv >= 1 => gridConfig.columns = nv - 1
            /\ nv = 0 => gridConfig.columns = 1
            /\ nh >= 1 => gridConfig.rows = nh - 1
            /\ nh = 0 => gridConfig.rows = 1

\* a single vertical slice gives 0 columns, while horizontal dividers alone give
\* 1 column in another reachable state
GridSizeIsGapCountWitness ==
    /\ pc = "done"
    /\ Len(gridConfig.verticalSlices) = 1
    /\ gridConfig.columns = 0
    /\ Len(gridConfig.horizontalSlices) >= 2

\* no row and no column of the image is uniform
NoUniformLine(image, tolerance) ==
    /\ \A y \in 0..(image.height - 1) :
          ~isUniformRow(image.data, image.width, image.height, y, tolerance)
    /\ \A x \in 0..(image.width - 1) :
          ~isUniformColumn(image.data, image.width, image.height, x, tolerance)

\* C27: for every GridConfig returned by detectGrid, cells.length = rows *
\* columns, and every (row, col) with 0 <= row < rows and 0 <= col < columns is
\* the index of exactly one cell.
CellCountMatchesGridSize ==
    pc = "done" =>
        /\ Len(gridConfig.cells) = gridConfig.rows * gridConfig.columns
        /\ \A row \in 0..(gridConfig.rows - 1), col \in 0..(gridConfig.columns - 1) :
               Cardinality({ i \in 1..Len(gridConfig.cells) :
                               /\ gridConfig.cells[i].row = row
                               /\ gridConfig.cells[i].col = col }) = 1

\* C5: when no row and no column is uniform, detectGrid emits exactly one cell,
\* (0, 0), that spans the whole image.
NoDividerSingleCell ==
    (pc = "done" /\ NoUniformLine(imageData, getTolerance(gridSettings))) =>
        gridConfig.cells = << [type |-> "cell", row |-> 0, col |-> 0, x |-> 0, y |-> 0,
                               width |-> imageData.width, height |-> imageData.height] >>

NoDividerSingleCellWitness ==
    /\ pc = "done"
    /\ NoUniformLine(imageData, getTolerance(gridSettings))
    /\ imageData.width >= 3
    /\ Len(gridConfig.cells) = 1

\* the rows and the columns of the image that are entirely in the divider color
DividerRows(image) ==
    { y \in 0..(image.height - 1) :
        \A x \in 0..(image.width - 1) : image.data[y * image.width + x] = DividerColor }

DividerColumns(image) ==
    { x \in 0..(image.width - 1) :
        \A y \in 0..(image.height - 1) : image.data[y * image.width + x] = DividerColor }

\* consecutive members of S are at least gap apart, and never adjacent
Spaced(S, gap) == \A a \in S, b \in S : a < b => (b - a >= gap /\ b - a >= 2)

\* the image consists of cells in one solid color and of one-pixel dividers in
\* another, at the rows R and the columns C, spaced by the minimum gaps or more
SolidGrid(image, settings, R, C) ==
    /\ image = SynthImage(image.width, image.height, R, C, "solid")
    /\ ~colorsMatch(CellColorA, DividerColor, getTolerance(settings))
    /\ Spaced(R, getMinGaps(settings).minYGap)
    /\ Spaced(C, getMinGaps(settings).minXGap)

\* the part of the image a cell rectangle spans, its closing row and column
\* included: rows y..y+height, columns x..x+width
CellRegion(image, cell) ==
    [width  |-> cell.width + 1,
     height |-> cell.height + 1,
     data   |-> [i \in 0..((cell.width + 1) * (cell.height + 1) - 1) |->
                    image.data[(cell.y + (i \div (cell.width + 1))) * image.width
                                 + cell.x + (i % (cell.width + 1))]]]

\* the image rows (columns) found uniform when the uniformity checks are run on
\* the regions of the cells
RowsFoundInCells(image, cells, tolerance) ==
    UNION { { cells[k].y + y : y \in { v \in 0..(cells[k].height) :
                 LET region == CellRegion(image, cells[k])
                 IN  isUniformRow(region.data, region.width, region.height, v, tolerance) } } :
            k \in 1..Len(cells) }

ColumnsFoundInCells(image, cells, tolerance) ==
    UNION { { cells[k].x + x : x \in { v \in 0..(cells[k].width) :
                 LET region == CellRegion(image, cells[k])
                 IN  isUniformColumn(region.data, region.width, region.height, v,
                                     tolerance) } } :
            k \in 1..Len(cells) }

\* detectGrid reports the dividers R and C as its slices, and the uniformity
\* checks run on its cells find the same rows and columns
RoundTrip(R, C) ==
    /\ gridConfig.horizontalSlices = SortedSeq(R)
    /\ gridConfig.verticalSlices = SortedSeq(C)
    /\ RowsFoundInCells(imageData, gridConfig.cells, getTolerance(gridSettings)) = R
    /\ ColumnsFoundInCells(imageData, gridConfig.cells, getTolerance(gridSettings)) = C

\* C13 as stated: on every image of solid cells and one-pixel dividers spaced
\* by the minimum gap or more, the slices are the dividers and the cells give
\* the dividers back.
ConsolidationRoundTrip ==
    (pc = "done"
       /\ SolidGrid(imageData, gridSettings, DividerRows(imageData), DividerColumns(imageData)))
        => RoundTrip(DividerRows(imageData), DividerColumns(imageData))

\* C13 amended: the same, for images with at least two divider rows and at
\* least two divider columns.
ConsolidationRoundTripOfGrids ==
    (pc = "done"
       /\ SolidGrid(imageData, gridSettings, DividerRows(imageData), DividerColumns(imageData))
       /\ Cardinality(DividerRows(imageData)) >= 2
       /\ Cardinality(DividerColumns(imageData)) >= 2)
        => RoundTrip(DividerRows(imageData), DividerColumns(imageData))

\* detectGrid ran on a solid grid of three divider rows and two divider columns
ConsolidationRoundTripWitness ==
    /\ pc = "done"
    /\ SolidGrid(imageData, gridSettings, DividerRows(imageData), DividerColumns(imageData))
    /\ Cardinality(DividerRows(imageData)) >= 3
    /\ Cardinality(DividerColumns(imageData)) >= 2
    /\ Len(gridConfig.cells) >= 2

(***************************************************************************)
(* Claims about the background remover                                     *)
(***************************************************************************)
\* the background candidates of the call that has run: the pixels within the
\* tolerance of the background color the remover settled on
BackgroundCandidates ==
    IF pc = "cleanedBasic"
    THEN candidateMask(imageData, findDominantColor(sampleCorners(imageData)),
                       DEFAULT_REMOVE_TOLERANCE)
    ELSE candidateMask(imageData, dominantBackground(imageData),
                       effectiveTolerance(DEFAULT_REMOVE_TOLERANCE, gridSettings))

\* the rectangle x0..x1 by y0..y1 touches no image edge, consists of background
\* candidates, and every pixel next to one of its sides is not a candidate
EnclosedRectangle(cand, x0, y0, x1, y1) ==
    LET w == imageData.width
        h == imageData.height
    IN  /\ 1 <= x0 /\ x0 <= x1 /\ x1 <= w - 2
        /\ 1 <= y0 /\ y0 <= y1 /\ y1 <= h - 2
        /\ \A x \in x0..x1, y \in y0..y1 : cand[y * w + x] = 1
        /\ \A x \in x0..x1 : cand[(y0 - 1) * w + x] = 0 /\ cand[(y1 + 1) * w + x] = 0
        /\ \A y \in y0..y1 : cand[y * w + x0 - 1] = 0 /\ cand[y * w + x1 + 1] = 0

\* the pixels of the enclosed rectangles of the input image; corners holds the
\* pixels that can be the top-left corner of one
EnclosedPixels ==
    LET cand == BackgroundCandidates
        w == imageData.width
        h == imageData.height
        corners == { c \in (1..(w - 2)) \X (1..(h - 2)) :
                       /\ cand[c[2] * w + c[1]] = 1
                       /\ cand[c[2] * w + c[1] - 1] = 0
                       /\ cand[(c[2] - 1) * w + c[1]] = 0 }
    IN  UNION { UNION { { y * w + x : x \in (c[1])..x1, y \in (c[2])..y1 } :
                        <<x1, y1>> \in { q \in ((c[1])..(w - 2)) \X ((c[2])..(h - 2)) :
                                           EnclosedRectangle(cand, c[1], c[2], q[1], q[2]) } } :
                c \in corners }

\* distance of pixel i to the nearest image edge
EdgeDistance(i) ==
    LET x == i % imageData.width
        y == i \div imageData.width
    IN  Min2(Min2(x, y), Min2(imageData.width - 1 - x, imageData.height - 1 - y))

\* C6 as stated: removeBackground leaves the alpha of every pixel of an
\* enclosed background-colored rectangle unchanged.
EnclosedAlphaUnchanged ==
    pc \in {"cleaned", "cleanedBasic"} =>
        \A i \in EnclosedPixels : cleanedData.data[i].a = imageData.data[i].a

\* C6 amended: the flood fill marks no pixel of an enclosed background-colored
\* rectangle, and removeBackground leaves the alpha of such a pixel unchanged
\* when the pixel has alpha >= 128 and lies at least scanDepth pixels from every
\* image edge (always, for the remover without shadow passes).
EnclosedAlphaKeptBeyondShadowPasses ==
    pc \in {"cleaned", "cleanedBasic"} =>
        LET enclosed == EnclosedPixels
            mask == floodFillFromEdges(BackgroundCandidates,
                                       imageData.width, imageData.height)
            scanDepth == gradientScanDepth(
                             Max2(getBackgroundRemovalSetting(gridSettings), 25))
        IN  \A i \in enclosed :
                /\ mask[i] = 0
                /\ pc = "cleanedBasic" => cleanedData.data[i].a = imageData.data[i].a
                /\ (imageData.data[i].a >= 128 /\ EdgeDistance(i) >= scanDepth)
                      => cleanedData.data[i].a = imageData.data[i].a

\* the advanced remover ran on an image with an enclosed rectangle of which one
\* pixel beyond the scan depth kept its alpha and another pixel was zeroed
EnclosedAlphaKeptWitness ==
    /\ pc = "cleaned"
    /\ \E i \in EnclosedPixels :
          /\ imageData.data[i].a >= 128
          /\ EdgeDistance(i) >= gradientScanDepth(
                                    Max2(getBackgroundRemovalSetting(gridSettings), 25))
          /\ cleanedData.data[i].a = imageData.data[i].a
    /\ \E i \in EnclosedPixels :
          imageData.data[i].a > 0 /\ cleanedData.data[i].a = 0

\* the number of 4-connected neighbours of (x, y) inside the image with alpha 0
TransparentNeighbourCount(data, x, y, width, height) ==
    Cardinality({ d \in { <<-1, 0>>, <<1, 0>>, <<0, -1>>, <<0, 1>> } :
                    /\ x + d[1] >= 0 /\ x + d[1] < width
                    /\ y + d[2] >= 0 /\ y + d[2] < height
                    /\ data[(y + d[2]) * width + x + d[1]].a = 0 })

\* the rows within shadowWidth rows above or below one of the slice lines
ClaimedBand(sliceLines, shadowWidth, height) ==
    { y \in 0..(height - 1) :
        \E k \in 1..Len(sliceLines) :
            sliceLines[k] - shadowWidth <= y /\ y <= sliceLines[k] + shadowWidth }

\* C16: the groups made from the sorted list of uniform indices are exactly
\* the maximal runs of consecutive indices: every group is a run of uniform
\* indices that cannot be extended, the groups are in order and separated by
\* at least one non-uniform index, every uniform index lies in exactly one
\* group, and each group has width = end - start + 1 and
\* center = round((start + end) / 2) with start <= center <= end; this holds
\* after the consolidation and still after the refinement of the centers.
UniformIndices == { dividerIndices[i] : i \in 1..Len(dividerIndices) }

GroupsAreMaximalRuns ==
    pc \in {"consolidated", "refined"} =>
        /\ \A k \in 1..Len(lineGroups) :
              LET g == lineGroups[k]
              IN  /\ g.start <= g.end
                  /\ \A j \in g.start..g.end : j \in UniformIndices
                  /\ (g.start - 1) \notin UniformIndices
                  /\ (g.end + 1) \notin UniformIndices
                  /\ g.width = g.end - g.start + 1
                  /\ 2 * g.center - 1 <= g.start + g.end
                  /\ g.start + g.end <= 2 * g.center
                  /\ g.start <= g.center /\ g.center <= g.end
        /\ \A k \in 1..(Len(lineGroups) - 1) :
              \E j \in (lineGroups[k].end + 1)..(lineGroups[k + 1].start - 1) :
                  j \notin UniformIndices
        /\ \A j \in UniformIndices :
              Cardinality({ k \in 1..Len(lineGroups) :
                              lineGroups[k].start <= j /\ j <= lineGroups[k].end }) = 1

\* the indices 0, 1, 3, 4, 5 have been consolidated into the runs 0..1 (center
\* rounded up to 1) and 3..5, and the centers refined
GroupsAreMaximalRunsWitness ==
    /\ pc = "refined"
    /\ dividerIndices = <<0, 1, 3, 4, 5>>
    /\ Len(lineGroups) = 2
    /\ lineGroups[1].center = 1
    /\ lineGroups[2].center = 4

\* C26: the list returned by enforceMinimumGap is a subsequence of the ordered
\* input list, in the same order, and every two consecutive retained groups
\* have centers at least minGap apart, also after a kept group was replaced
\* by a thicker later one.
IsSubsequenceOf(sub, seq) ==
    \E f \in [1..Len(sub) -> 1..Len(seq)] :
        /\ \A i \in 1..Len(sub) : sub[i] = seq[f[i]]
        /\ \A i \in 1..(Len(sub) - 1) : f[i] < f[i + 1]

MinimumGapSeparation ==
    \A call \in 1..Len(gapCalls) :
        LET kept == gapCalls[call].filtered
        IN  /\ IsSubsequenceOf(kept, lineGroups)
            /\ \A i \in 1..(Len(kept) - 1) :
                   kept[i + 1].center - kept[i].center >= gapCalls[call].minGap

\* a call in which the second group was kept and then replaced by the thicker
\* third one
MinimumGapSeparationWitness ==
    /\ Len(lineGroups) = 3
    /\ Len(gapCalls) >= 1
    /\ gapCalls[1].minGap > 0
    /\ lineGroups[2].center - lineGroups[1].center >= gapCalls[1].minGap
    /\ lineGroups[3].center - lineGroups[2].center < gapCalls[1].minGap
    /\ lineGroups[3].width > lineGroups[2].width
    /\ gapCalls[1].filtered = <<lineGroups[1], lineGroups[3]>>

\* C28: removeBackground and removeShadowsAlongSlices never change the R, G or
\* B channel of any pixel, and the resulting alpha of every pixel is either the
\* input alpha or 0.
ErasedOnlyAlpha(before, after) ==
    /\ after.width = before.width
    /\ after.height = before.height
    /\ DOMAIN after.data = DOMAIN before.data
    /\ \A i \in DOMAIN before.data :
          /\ after.data[i].r = before.data[i].r
          /\ after.data[i].g = before.data[i].g
          /\ after.data[i].b = before.data[i].b
          /\ after.data[i].a \in {before.data[i].a, 0}

\* from "ready" the buffer imageData is handed to one of the two functions,
\* from "cleaned" the buffer cleanedData is handed to removeShadowsAlongSlices
AlphaOnlyErasure ==
    [][ /\ pc = "ready" => ErasedOnlyAlpha(imageData, cleanedData')
        /\ pc = "cleaned" => ErasedOnlyAlpha(cleanedData, cleanedData') ]_vars

\* after removeBackground and removeShadowsAlongSlices a pixel with a nonzero
\* red channel is erased and keeps its color, and a pixel with a nonzero green
\* channel keeps its alpha
AlphaOnlyErasureWitness ==
    /\ pc = "done"
    /\ \E i, j \in DOMAIN imageData.data :
          /\ imageData.data[i].a > 0 /\ imageData.data[i].r > 0
          /\ imageData.data[j].a > 0 /\ imageData.data[j].g > 0
          /\ cleanedData.data[i].a = 0 /\ cleanedData.data[i].r > 0
          /\ cleanedData.data[j].a = imageData.data[j].a

ComponentsOfLatestRun ==
    pc \in {"analyzed", "reanalyzed"} =>
        /\ Len(components) = Len(gridConfig.cells)
        /\ \A k \in 1..Len(gridConfig.cells) :
              /\ k <= Len(components)
              /\ components[k].row = gridConfig.cells[k].row
              /\ components[k].col = gridConfig.cells[k].col
              /\ components[k].sourceX = gridConfig.cells[k].x
              /\ components[k].sourceY = gridConfig.cells[k].y
              /\ components[k].width = gridConfig.cells[k].width
              /\ components[k].height = gridConfig.cells[k].height
        /\ Len(gridLineComponents) = Len(gridConfig.gridLineSegments)
        /\ \A k \in 1..Len(gridConfig.gridLineSegments) :
              /\ k <= Len(gridLineComponents)
              /\ gridLineComponents[k].id = gridConfig.gridLineSegments[k].id
              /\ gridLineComponents[k].type = gridConfig.gridLineSegments[k].type
              /\ gridLineComponents[k].sourceX = gridConfig.gridLineSegments[k].x
              /\ gridLineComponents[k].sourceY = gridConfig.gridLineSegments[k].y
              /\ gridLineComponents[k].width = gridConfig.gridLineSegments[k].width
              /\ gridLineComponents[k].height = gridConfig.gridLineSegments[k].height

\* analyze() has run more than once, the last time on an image with four cells
\* and grid line segments
ComponentsOfLatestRunWitness ==
    /\ pc = "reanalyzed"
    /\ Len(gridConfig.cells) = 4
    /\ Len(components) = 4
    /\ Len(gridLineComponents) > 0
    /\ components[4].row = 1 /\ components[4].col = 1

\* C17: enforceMinimumGap walks the groups in order and keeps the first; for
\* each later group g and the last kept group k: if g.center - k.center >= minGap
\* then g is appended; otherwise exactly one of the two survives in k's place,
\* g only if g.width > k.width, and k on equal widths.  Stated on the results
\* for the prefixes of the list: the result for n groups is obtained from the
\* result for n - 1 groups by that rule.
MinimumGapStepRule ==
    \A c \in 1..Len(gapCalls) :
        LET minGap == gapCalls[c].minGap
            kept(n) == enforceMinimumGap(SubSeq(lineGroups, 1, n), minGap)
        IN  /\ gapCalls[c].filtered = kept(Len(lineGroups))
            /\ kept(0) = <<>>
            /\ Len(lineGroups) >= 1 => kept(1) = <<lineGroups[1]>>
            /\ \A n \in 2..Len(lineGroups) :
                  LET before == kept(n - 1)
                      lastKept == before[Len(before)]
                      g == lineGroups[n]
                  IN  IF g.center - lastKept.center >= minGap
                      THEN kept(n) = Append(before, g)
                      ELSE /\ Len(kept(n)) = Len(before)
                           /\ SubSeq(kept(n), 1, Len(before) - 1)
                                = SubSeq(before, 1, Len(before) - 1)
                           /\ kept(n)[Len(before)]
                                = (IF g.width > lastKept.width THEN g ELSE lastKept)

\* two calls on a list of two groups in which the second group, too close to
\* the first and wider, has replaced it
MinimumGapStepRuleWitness ==
    /\ pc = "done"
    /\ Len(lineGroups) = 2
    /\ lineGroups[2].center - lineGroups[1].center < gapCalls[1].minGap
    /\ lineGroups[2].width > lineGroups[1].width
    /\ gapCalls[1].filtered = <<lineGroups[2]>>
    /\ gapCalls[2].minGap > gapCalls[1].minGap
    /\ gapCalls[2].filtered = gapCalls[1].filtered

\* C18: for H retained horizontal groups and V retained vertical groups,
\* detectGrid emits exactly H + V + H*V grid line segments: one
\* 'horizontal-line' segment per horizontal group (x = 0, y = start, width =
\* image width, height = group width), one 'vertical-line' segment per vertical
\* group (x = start, y = 0, width = group width, height = image height), and
\* one 'intersection' segment per pair (x = v.start, y = h.start, width =
\* v.width, height = h.width).
SegmentsOfType(type) ==
    { k \in 1..Len(gridConfig.gridLineSegments) : gridConfig.gridLineSegments[k].type = type }

SegmentsAt(type, x, y, width, height) ==
    { k \in SegmentsOfType(type) :
        LET segment == gridConfig.gridLineSegments[k]
        IN  /\ segment.x = x /\ segment.y = y
            /\ segment.width = width /\ segment.height = height }

SegmentCount ==
    pc = "done" =>
        LET hGroups == gridConfig.horizontalLineGroups
            vGroups == gridConfig.verticalLineGroups
            H == Len(hGroups)
            V == Len(vGroups)
        IN  /\ Len(gridConfig.gridLineSegments) = H + V + H * V
            /\ Cardinality(SegmentsOfType("horizontal-line")) = H
            /\ Cardinality(SegmentsOfType("vertical-line")) = V
            /\ Cardinality(SegmentsOfType("intersection")) = H * V
            /\ \A i \in 1..H :
                  Cardinality(SegmentsAt("horizontal-line", 0, hGroups[i].start,
                                         imageData.width, hGroups[i].width)) = 1
            /\ \A j \in 1..V :
                  Cardinality(SegmentsAt("vertical-line", vGroups[j].start, 0,
                                         vGroups[j].width, imageData.height)) = 1
            /\ \A i \in 1..H, j \in 1..V :
                  Cardinality(SegmentsAt("intersection", vGroups[j].start, hGroups[i].start,
                                         vGroups[j].width, hGroups[i].width)) = 1

\* a grid of two horizontal groups, one of them two rows thick, and two
\* vertical groups: 8 segments
SegmentCountWitness ==
    /\ pc = "done"
    /\ Len(gridConfig.horizontalLineGroups) = 2
    /\ Len(gridConfig.verticalLineGroups) = 2
    /\ gridConfig.horizontalLineGroups[1].width = 2
    /\ gridConfig.verticalLineGroups[1].width = 1
    /\ Len(gridConfig.gridLineSegments) = 8

\* C19: outerBorders.top is the number of consecutive uniform rows counted
\* downward from row 0 (0 when row 0 is not uniform), outerBorders.bottom the
\* number counted upward from the last row, and left / right likewise for
\* columns; a row or column is uniform when every pixel of it matches its first
\* pixel within the tolerance on all four channels.
ChannelsWithin(p, q, tolerance) ==
    \A d \in {p.r - q.r, p.g - q.g, p.b - q.b, p.a - q.a} : -tolerance <= d /\ d <= tolerance

UniformRowOfImage(y) ==
    \A x \in 0..(imageData.width - 1) :
        ChannelsWithin(imageData.data[y * imageData.width + x],
                       imageData.data[y * imageData.width], getTolerance(gridSettings))

UniformColumnOfImage(x) ==
    \A y \in 0..(imageData.height - 1) :
        ChannelsWithin(imageData.data[y * imageData.width + x],
                       imageData.data[x], getTolerance(gridSettings))

\* count is the length of the longest run of lines from..from+count-1 (step = 1)
\* or from, from-1, ... (step = -1) that are all uniform, among n lines
IsLeadingRun(count, from, step, n, Uniform(_)) ==
    /\ count \in 0..n
    /\ \A k \in 0..(count - 1) : Uniform(from + step * k)
    /\ count < n => ~Uniform(from + step * count)

OuterBordersAreLeadingRuns ==
    pc = "done" =>
        LET borders == gridConfig.outerBorders
            width == imageData.width
            height == imageData.height
        IN  /\ IsLeadingRun(borders.top, 0, 1, height, UniformRowOfImage)
            /\ IsLeadingRun(borders.bottom, height - 1, -1, height, UniformRowOfImage)
            /\ IsLeadingRun(borders.left, 0, 1, width, UniformColumnOfImage)
            /\ IsLeadingRun(borders.right, width - 1, -1, width, UniformColumnOfImage)

\* an image with two uniform rows at the top, a uniform row further down that
\* is not part of a border, and no uniform last row; the rows that are not
\* uniform differ from their first pixel in the alpha channel only
OuterBordersAreLeadingRunsWitness ==
    /\ pc = "done"
    /\ \E i \in DOMAIN imageData.data : imageData.data[i] = FadedColor
    /\ gridConfig.outerBorders.top = 2
    /\ gridConfig.outerBorders.bottom = 0
    /\ gridConfig.outerBorders.left = 1
    /\ gridConfig.outerBorders.right = 0
    /\ \E y \in 3..(imageData.height - 2) : UniformRowOfImage(y)

\* C20: for every candidate mask floodFillFromEdges terminates, and it marks
\* a pixel as background exactly when the pixel is a background candidate and
\* is joined to a background candidate on the image border by a path of
\* 4-connected background candidates; every other pixel stays unmarked.
CandidatePixels == { i \in DOMAIN initialMask.mask : initialMask.mask[i] = 1 }

OnBorder(i) ==
    \/ i % initialMask.width \in {0, initialMask.width - 1}
    \/ i \div initialMask.width \in {0, initialMask.height - 1}

FourConnected(i, j) ==
    LET dx == (i % initialMask.width) - (j % initialMask.width)
        dy == (i \div initialMask.width) - (j \div initialMask.width)
    IN  dx * dx + dy * dy = 1

\* the candidates joined to a member of S by a path of candidates
RECURSIVE JoinedTo(_)
JoinedTo(S) ==
    LET more == { i \in CandidatePixels \ S : \E j \in S : FourConnected(i, j) }
    IN  IF more = {} THEN S ELSE JoinedTo(S \cup more)

FloodFillMarksConnected ==
    pc = "filled" =>
        /\ floodFill.queue = <<>>
        /\ \A i \in DOMAIN initialMask.mask :
              floodFill.result[i] = 1
                <=> i \in JoinedTo({ j \in CandidatePixels : OnBorder(j) })
        /\ \A i \in DOMAIN initialMask.mask : floodFill.result[i] \in {0, 1}

\* a 4 x 3 mask has been filled in which the candidate (1, 1), enclosed by
\* pixels that are not candidates, stayed unmarked, and the candidates (2, 0),
\* (3, 0) and (3, 1) on the border were marked
FloodFillMarksConnectedWitness ==
    /\ pc = "filled"
    /\ initialMask.width = 4
    /\ initialMask.height = 3
    /\ initialMask.mask[5] = 1
    /\ floodFill.result[5] = 0
    /\ floodFill.result[2] = 1
    /\ floodFill.result[3] = 1
    /\ floodFill.result[7] = 1

\* C21: removeGradientShadows modifies only pixels whose distance to the
\* nearest image edge is less than scanDepth = max(3, min(15,
\* floor(aggressiveness / 6))); inside that margin every pixel with
\* 0 < alpha < 250 has its alpha set to 0; pixels deeper than scanDepth from all
\* four edges are left unchanged.
GradientPassLocal ==
    \A c \in 1..Len(passCalls) :
        LET a == passCalls[c].aggressiveness
            sixth == a \div 6
            scanDepth == IF sixth < 3 THEN 3 ELSE IF sixth > 15 THEN 15 ELSE sixth
            after == passCalls[c].result
        IN  /\ after.width = imageData.width /\ after.height = imageData.height
            /\ DOMAIN after.data = DOMAIN imageData.data
            /\ \A i \in DOMAIN imageData.data :
                  /\ EdgeDistance(i) >= scanDepth => after.data[i] = imageData.data[i]
                  /\ (EdgeDistance(i) < scanDepth
                        /\ 0 < imageData.data[i].a /\ imageData.data[i].a < 250)
                       => after.data[i].a = 0

\* a 9 x 9 image scanned 4 deep: the faint center pixel is kept, a pixel of
\* alpha 249 at depth 3 is erased
GradientPassLocalWitness ==
    /\ pc = "done"
    /\ imageData.width = 9 /\ imageData.height = 9
    /\ passCalls[1].aggressiveness = 25
    /\ imageData.data[40].a = 100
    /\ passCalls[1].result.data[40].a = 100
    /\ \E i \in DOMAIN imageData.data :
          /\ EdgeDistance(i) = 3
          /\ imageData.data[i].a = 249
          /\ passCalls[1].result.data[i].a = 0

\* C15: for every image with width >= 1 and height >= 1 at most 8 points are
\* sampled: the 4 corners, plus 4 points inset by
\* inset = min(3, floor(min(width, height) / 4)), which are added only when
\* width > 2*inset and height > 2*inset; every sampled (x, y) has 0 <= x < width
\* and 0 <= y < height, and the color sampled is the one of that pixel.
SamplingInsideImage ==
    pc = "sampled" =>
        LET width == imageData.width
            height == imageData.height
            inset == Min2(3, Min2(width, height) \div 4)
            points == samples.cornerPoints
        IN  /\ Len(points) \in {4, 8}
            /\ <<points[1], points[2], points[3], points[4]>>
                 = << [x |-> 0, y |-> 0], [x |-> width - 1, y |-> 0],
                      [x |-> 0, y |-> height - 1], [x |-> width - 1, y |-> height - 1] >>
            /\ Len(points) = 8 =>
                  /\ width > 2 * inset /\ height > 2 * inset
                  /\ <<points[5], points[6], points[7], points[8]>>
                       = << [x |-> inset, y |-> inset],
                            [x |-> width - 1 - inset, y |-> inset],
                            [x |-> inset, y |-> height - 1 - inset],
                            [x |-> width - 1 - inset, y |-> height - 1 - inset] >>
            /\ \A k \in 1..Len(points) :
                  /\ 0 <= points[k].x /\ points[k].x < width
                  /\ 0 <= points[k].y /\ points[k].y < height
            /\ Len(samples.colors) = Len(points)
            /\ \A k \in 1..Len(points) :
                  samples.colors[k] = Pixel(points[k].x, points[k].y, 0, 255)

\* the 8 points of a 12 x 13 image, inset by 3, have been sampled
SamplingInsideImageWitness ==
    /\ pc = "sampled"
    /\ imageData.width = 12
    /\ imageData.height = 13
    /\ Len(samples.cornerPoints) = 8
    /\ samples.cornerPoints[8] = [x |-> 8, y |-> 9]

\* C11 as stated: removeShadowsAlongSlices zeroes every pixel of the rows
\* e - shadowWidth .. e + shadowWidth that has 0 < alpha < 200 and at least two
\* transparent 4-connected neighbours: when the pass visits it, and hence also
\* when it is so in the buffer handed in (alphas only fall during the pass).
ShadowBandZeroed ==
    [][RemoveShadowsCall =>
        LET w == imageData.width
            h == imageData.height
            visits == shadowVisits(sliceCall.sliceLines, sliceCall.shadowWidth, w, h)
            start == [data |-> imageData.data, next |-> 0]
        IN  /\ \A k \in 1..Len(visits) :
                  LET at == shadowLoop(start, visits, w, h, k - 1).data
                      i == visits[k].y * w + visits[k].x
                  IN  (/\ at[i].a > 0 /\ at[i].a < 200
                       /\ TransparentNeighbourCount(at, visits[k].x, visits[k].y, w, h) >= 2)
                          => imageData'.data[i].a = 0
            /\ \A i \in DOMAIN imageData.data :
                  (/\ i \div w \in ClaimedBand(sliceCall.sliceLines,
                                               sliceCall.shadowWidth, h)
                   /\ imageData.data[i].a > 0 /\ imageData.data[i].a < 200
                   /\ TransparentNeighbourCount(imageData.data, i % w, i \div w, w, h) >= 2)
                      => imageData'.data[i].a = 0]_vars

ShapesOfType(types) ==
    { k \in 1..Len(shapeAnalysis.shapes) : shapeAnalysis.shapes[k].type \in types }

\* C7: rectangle / rounded-rectangle exclusivity.  The shapes returned by
\* decomposeIntoShapes hold at most one shape of type rectangle or
\* rounded-rectangle, hence never one of each.
RectangleExclusive ==
    pc = "done" => Cardinality(ShapesOfType({"rectangle", "rounded-rectangle"})) <= 1

\* a rounded rectangle was emitted for bounds that also pass the plain-rectangle
\* test (more than 95% of the bounds have alpha > 200)
RectangleExclusiveWitness ==
    /\ pc = "done"
    /\ ShapesOfType({"rounded-rectangle"}) # {}
    /\ checkIfRectangle(imageData, shapeAnalysis.bounds[1])

\* C22 as stated: when no corner rounding is detected, a 'rectangle' shape is
\* emitted if and only if the number of pixels with alpha > 200 inside the
\* content bounds is strictly greater than 95% of bounds.width * bounds.height;
\* the rectangle has the geometry of the bounds, cornerRadius = 0 and the color
\* of the pixel at (floor(x + width / 2), floor(y + height / 2)).
FilledInBounds ==
    LET b == shapeAnalysis.bounds[1]
    IN  Cardinality({ i \in DOMAIN imageData.data :
                        /\ b.x <= i % imageData.width
                        /\ i % imageData.width < b.x + b.width
                        /\ b.y <= i \div imageData.width
                        /\ i \div imageData.width < b.y + b.height
                        /\ imageData.data[i].a > 200 })

RectangleEmittedAsStated ==
    LET b == shapeAnalysis.bounds[1]
        centerX == (2 * b.x + b.width) \div 2
        centerY == (2 * b.y + b.height) \div 2
    IN  /\ ShapesOfType({"rectangle"}) # {}
             <=> 100 * FilledInBounds > 95 * b.width * b.height
        /\ \A k \in ShapesOfType({"rectangle"}) :
              LET shape == shapeAnalysis.shapes[k]
              IN  /\ shape.x = b.x /\ shape.y = b.y
                  /\ shape.width = b.width /\ shape.height = b.height
                  /\ shape.cornerRadius = 0
                  /\ shape.color = Some(imageData.data[centerY * imageData.width + centerX])

CornerSampleSize ==
    LET b == shapeAnalysis.bounds[1]
        side == IF b.width < b.height THEN b.width ELSE b.height
    IN  IF side \div 4 > 20 THEN 20 ELSE side \div 4

\* the first step i of 0..sampleSize-1 at which the pixel (x + i*dx, y + i*dy)
\* has alpha > 128, or 0
FirstSolidStep(x, y, dx, dy) ==
    LET solid(i) ==
            LET index == (y + i * dy) * imageData.width + (x + i * dx)
            IN  index \in DOMAIN imageData.data /\ imageData.data[index].a > 128
    IN  IF \E i \in 0..(CornerSampleSize - 1) : solid(i)
        THEN CHOOSE i \in 0..(CornerSampleSize - 1) :
                 solid(i) /\ \A j \in 0..(i - 1) : ~solid(j)
        ELSE 0

CornerRadii ==
    LET b == shapeAnalysis.bounds[1]
    IN  [topLeft     |-> FirstSolidStep(b.x, b.y, 1, 1),
         topRight    |-> FirstSolidStep(b.x + b.width - 1, b.y, -1, 1),
         bottomLeft  |-> FirstSolidStep(b.x, b.y + b.height - 1, 1, -1),
         bottomRight |-> FirstSolidStep(b.x + b.width - 1, b.y + b.height - 1, -1, -1)]

Visible(x, y) ==
    /\ 0 <= x /\ x < imageData.width /\ 0 <= y /\ y < imageData.height
    /\ imageData.data[y * imageData.width + x].a > 0

\* the maximal runs of visible pixels of the rows inside the bounds, as
\* <<x of the start, y, length>>: a run starts at a visible pixel whose left
\* neighbour is outside the bounds or not visible, and ends before the first
\* pixel after it that is outside the bounds or not visible
RowRuns ==
    LET b == shapeAnalysis.bounds[1]
        starts == { p \in (b.x..(b.x + b.width - 1)) \X (b.y..(b.y + b.height - 1)) :
                      Visible(p[1], p[2]) /\ (p[1] = b.x \/ ~Visible(p[1] - 1, p[2])) }
        length(p) == CHOOSE n \in 1..(b.x + b.width - p[1]) :
                        /\ \A k \in 0..(n - 1) : Visible(p[1] + k, p[2])
                        /\ (p[1] + n = b.x + b.width \/ ~Visible(p[1] + n, p[2]))
    IN  { <<p[1], p[2], length(p)>> : p \in starts }

\* the maximal runs of the columns, as <<x, y of the start, length>>
ColumnRuns ==
    LET b == shapeAnalysis.bounds[1]
        starts == { p \in (b.x..(b.x + b.width - 1)) \X (b.y..(b.y + b.height - 1)) :
                      Visible(p[1], p[2]) /\ (p[2] = b.y \/ ~Visible(p[1], p[2] - 1)) }
        length(p) == CHOOSE n \in 1..(b.y + b.height - p[2]) :
                        /\ \A k \in 0..(n - 1) : Visible(p[1], p[2] + k)
                        /\ (p[2] + n = b.y + b.height \/ ~Visible(p[1], p[2] + n))
    IN  { <<p[1], p[2], length(p)>> : p \in starts }

\* the shapes of the given type are, one for one, the runs of the given set
LinesAreRuns(type, runs) ==
    /\ Cardinality(ShapesOfType({type})) = Cardinality(runs)
    /\ \A r \in runs :
          \E k \in ShapesOfType({type}) :
              LET shape == shapeAnalysis.shapes[k]
              IN  /\ shape.x = r[1] /\ shape.y = r[2] /\ shape.length = r[3]
                  /\ shape.color = Some(imageData.data[r[2] * imageData.width + r[1]])

LineThreshold ==
    (pc = "done" /\ shapeAnalysis.bounds # undefined) =>
        LET b == shapeAnalysis.bounds[1]
        IN  /\ LinesAreRuns("horizontal-line", { r \in RowRuns : 10 * r[3] > 8 * b.width })
            /\ LinesAreRuns("vertical-line", { r \in ColumnRuns : 10 * r[3] > 8 * b.height })

\* content 5 pixels wide and 2 high: the first row is one run of 5 pixels and
\* is recorded, the second row is one run of 4 pixels, exactly 80%, and is not
LineThresholdWitness ==
    /\ pc = "done"
    /\ shapeAnalysis.bounds # undefined
    /\ shapeAnalysis.bounds[1].width = 5
    /\ <<0, 0, 5>> \in RowRuns
    /\ <<0, 1, 4>> \in RowRuns
    /\ Cardinality(ShapesOfType({"horizontal-line"})) = 1

\* C30: whenever calculateNineSliceBorders is given the analysis that
\* decomposeIntoShapes produced for the same buffer and returns a non-null
\* result, the four borders are equal, top + bottom <= bounds.height and
\* left + right <= bounds.width; it returns null exactly when isEmpty = true.
NineSliceNoOverlap ==
    pc = "sliced" =>
        /\ nineSlice = undefined <=> shapeAnalysis.isEmpty
        /\ nineSlice # undefined =>
              LET borders == nineSlice[1]
                  bounds == shapeAnalysis.bounds[1]
              IN  /\ borders.top = borders.right
                  /\ borders.right = borders.bottom
                  /\ borders.bottom = borders.left
                  /\ borders.top + borders.bottom <= bounds.height
                  /\ borders.left + borders.right <= bounds.width

\* a 12 x 12 box with a corner radius of 2: the borders are 2 + 2 = 4, above
\* the default of 3
NineSliceNoOverlapWitness ==
    /\ pc = "sliced"
    /\ nineSlice # undefined
    /\ shapeAnalysis.bounds[1].width = 12
    /\ nineSlice[1].top = 4

\* C8 as stated: isEmpty is true if and only if the buffer has no pixel with
\* alpha > 0.
IsEmptyIffNoContent ==
    pc = "done" =>
        (shapeAnalysis.isEmpty <=> \A i \in DOMAIN imageData.data : imageData.data[i].a = 0)

\* C14: for a zero-sized buffer (width = 0 or height = 0, no data),
\* decomposeIntoShapes returns isEmpty = true and an empty list of shapes.
ZeroSizedIsEmpty ==
    (pc = "done" /\ (imageData.width = 0 \/ imageData.height = 0)) =>
        /\ shapeAnalysis.isEmpty
        /\ shapeAnalysis.shapes = <<>>

\* a buffer of width 0 and positive height has been decomposed: the bounding
\* box is not null there, and the detectors have run on it
ZeroSizedIsEmptyWitness ==
    /\ pc = "done"
    /\ imageData.width = 0
    /\ imageData.height = 2
    /\ shapeAnalysis.bounds # undefined

\* C9 as stated: the 50 x 4 opaque strip yields exactly one horizontal-line
\* shape, of length 40..50, and no vertical-line shape.
StripOneHorizontalLine ==
    (pc = "done" /\ imageData = StripImage) =>
        /\ Cardinality(ShapesOfType({"horizontal-line"})) = 1
        /\ \A k \in ShapesOfType({"horizontal-line"}) :
              shapeAnalysis.shapes[k].length \in 40..50
        /\ ShapesOfType({"vertical-line"}) = {}

\* C10 as stated: the 64 x 64 square with 8-pixel rounded corners yields exactly
\* one shape, a rounded-rectangle of cornerRadius 6..10, and no rectangle.
RoundedSquareOneShape ==
    (pc = "done" /\ imageData = RoundedSquareImage) =>
        /\ Len(shapeAnalysis.shapes) = 1
        /\ shapeAnalysis.shapes[1].type = "rounded-rectangle"
        /\ shapeAnalysis.shapes[1].cornerRadius \in 6..10
        /\ ShapesOfType({"rectangle"}) = {}

====
